---- MODULE Spec2Model ----
(***************************************************************************)
(* A model of the cursor tracker of the smiles-vscode extension            *)
(* (src/src/lineTracker.js): the LineTracker class with its editor event   *)
(* listeners, the resolution of the current line for a selfies document    *)
(* and for a smiles-js document, and the module cache behind               *)
(* _loadSmilesModule; and of its two diagnostics providers                 *)
(* (src/src/diagnostics.js and the round-trip provider).                   *)
(***************************************************************************)
EXTENDS Integers, Sequences, FiniteSets, Bags, TLC

VARIABLES
    \* ---- the module cache and what it reads (lineTracker.js:118-151) ----
    files,              \* the file system: path -> modification time and lines
    now,                \* Date.now(), in milliseconds
    esmModules,         \* the host's ES module map: import URL -> module record
    smilesModuleCache,  \* this._smilesModuleCache: a Map from cache key to module
    loads,              \* the calls of _loadSmilesModule suspended at their await
    lastReturn,         \* what the last call of _loadSmilesModule gave its caller
    \* ---- the editor and the tracker (lineTracker.js:13-97, 182-356) ----
    text,               \* the editor's documents: document -> its lines
    activeTextEditor,   \* vscode.window.activeTextEditor (its document), or NoDoc
    currentLine,        \* this._currentLine
    currentDocument,    \* this._currentDocument
    parseResult,        \* this._parseResult
    resolves,           \* the calls of _updateLineInfo suspended at an await
    seq,                \* how many calls of _updateLineInfo have suspended so far
    lastEvent,          \* the last event handled and what its handler did
    \* ---- the diagnostics (diagnostics.js:122-258, part_002:160-233) ----
    diagnosticCollection, \* collection name -> document -> its published set
    engine              \* what loadWithImports gives for a text of a selfies document

trackerVars == <<text, activeTextEditor, currentLine, currentDocument, parseResult,
                 resolves, seq, lastEvent, diagnosticCollection, engine>>
vars == <<files, now, esmModules, smilesModuleCache, loads, lastReturn,
          text, activeTextEditor, currentLine, currentDocument, parseResult,
          resolves, seq, lastEvent, diagnosticCollection, engine>>

\* a value that may be null: Null, or Some(v)
Null == <<>>
Some(v) == <<v>>

(***************************************************************************)
(* The module cache                                                        *)
(***************************************************************************)

\* the smiles-js files of the workspace
Paths == {"m1.smiles.js", "m2.smiles.js"}

\* bounds of the model
MaxMtime == 1     \* file writes per file
MaxNow == 1       \* milliseconds the clock advances
MaxLoads == 2     \* calls of _loadSmilesModule suspended at one time

\* `${fileUrl}?t=${Date.now()}`: the URL a load imports
ImportUrl(filePath, t) == <<filePath, t>>
Urls == Paths \X (0..MaxNow)

\* `${filePath}:${fs.statSync(filePath).mtimeMs}`
CacheKey(filePath, mtimeMs) == <<filePath, mtimeMs>>

\* Map.prototype.get / clear / set on this._smilesModuleCache, a set of
\* [key, module] entries with one entry per key (has: an entry has the key)
MapGet(map, key) == (CHOOSE e \in map : e.key = key).module
MapClear(map) == {}
MapSet(map, key, module) ==
    {e \in map : e.key # key} \cup {[key |-> key, module |-> module]}

\* What a call gave its caller: kind is "hit" (the cached module), "loaded" (the
\* module just imported), "failed" ({module: null, error}) or "threw" (the call
\* rejected); age compares the file the returned exports were read from with the
\* file the call saw; cacheSize is the size of the cache when the call returned.
NoReturn == [kind |-> "none", path |-> "", age |-> "none", cacheSize |-> 0]
Age(captured, mtime) ==
    IF captured < mtime THEN "older" ELSE IF captured = mtime THEN "same" ELSE "newer"
ReturnOf(kind, filePath, age, cache) ==
    [kind |-> kind, path |-> filePath, age |-> age, cacheSize |-> Cardinality(cache)]

\* the module cache after a successful import (lineTracker.js:134-135)
InstallKeepingOld(cache, key, module) == MapSet(cache, key, module)
Install(cache, key, module) == MapSet(MapClear(cache), key, module)

\* import(url): the host keeps one module record per URL, and a second import of
\* the same URL joins the record instead of executing the file again.  A record is
\* absent, linking (the import is under way), evaluated (with the modification
\* time and the lines of the file it executed) or errored (with the failure
\* thrown).
ImportStart(modules, url) ==
    IF modules[url].st = "absent"
        THEN [modules EXCEPT ![url] = [st |-> "linking", captured |-> 0, source |-> <<>>,
                                       failure |-> Null]]
        ELSE modules

\* _loadSmilesModule up to its await (lineTracker.js:120-131), for a file that
\* is there: a hit gives the cached module, a miss starts the import
LoadBegin(cache, modules, filePath, file, t) ==
    LET cacheKey == CacheKey(filePath, file.mtimeMs) IN
    IF \E e \in cache : e.key = cacheKey
        THEN [kind |-> "hit", key |-> cacheKey, url |-> MapGet(cache, cacheKey),
              modules |-> modules,
              return |-> ReturnOf("hit", filePath,
                                  Age(modules[MapGet(cache, cacheKey)].captured,
                                      file.mtimeMs), cache)]
        ELSE [kind |-> "miss", key |-> cacheKey, url |-> ImportUrl(filePath, t),
              modules |-> ImportStart(modules, ImportUrl(filePath, t)),
              return |-> NoReturn]

\* _loadSmilesModule when fs.statSync throws (the file is away): the statement is
\* before the try block, so the call rejects and the cache is left as it is
LoadRejected(cache, filePath) == ReturnOf("threw", filePath, "none", cache)

\* _loadSmilesModule after its await (lineTracker.js:133-150), the import
\* settled: the module is installed, or the cache is cleared (lineTracker.js:140)
\* and the message of the failure returned, with its line when the failure has a
\* position (lineTracker.js:143-147)
LoadEnd(cache, modules, l) ==
    IF modules[l.url].st = "evaluated"
        THEN LET installed == Install(cache, l.key, l.url) IN
             [cache |-> installed, module |-> Some(l.url), error |-> Null,
              return |-> ReturnOf("loaded", l.key[1],
                                  Age(modules[l.url].captured, l.key[2]), installed)]
        ELSE LET cleared == MapClear(cache)
                 failure == modules[l.url].failure[1]
                 errorMessage == IF failure.position # Null
                                     THEN "Line " \o failure.position[1] \o ": "
                                              \o failure.message
                                     ELSE failure.message IN
             [cache |-> cleared, module |-> Null,
              error |-> Some(errorMessage),
              return |-> ReturnOf("failed", l.key[1], "none", cleared)]

\* the host reads and executes the file of an import that is under way: the
\* execution throws (a failure whose stack or message has a line:column
\* position, or one that has none) or gives the exports of the file as it is now
ImportEvaluate(url) ==
    /\ esmModules[url].st = "linking"
    /\ \E record \in {[st |-> "evaluated", captured |-> files[url[1]].mtimeMs,
                       source |-> files[url[1]].lines, failure |-> Null]}
                      \cup {[st |-> "errored", captured |-> 0, source |-> <<>>,
                              failure |-> Some(f)] :
                             f \in {[message |-> "Unexpected token",
                                     position |-> Some("3")],
                                    [message |-> "Cannot find module",
                                     position |-> Null]}} :
         esmModules' = [esmModules EXCEPT ![url] = record]
    /\ UNCHANGED <<files, now, smilesModuleCache, loads, lastReturn>>

\* a file is written: its modification time grows
WriteFile(fs, filePath, lines) ==
    [fs EXCEPT ![filePath] = [mtimeMs |-> @.mtimeMs + 1, lines |-> lines]]

\* a millisecond passes
Tick ==
    /\ now < MaxNow
    /\ now' = now + 1
    /\ UNCHANGED <<files, esmModules, smilesModuleCache, loads, lastReturn>>

\* ---- a caller of _loadSmilesModule other than the tracker's own resolves ----

LoadThrows(filePath) ==
    /\ lastReturn' = LoadRejected(smilesModuleCache, filePath)
    /\ UNCHANGED <<files, now, esmModules, smilesModuleCache, loads>>

LoadHit(filePath) ==
    \E b \in {LoadBegin(smilesModuleCache, esmModules, filePath, files[filePath], now)} :
    /\ b.kind = "hit"
    /\ lastReturn' = b.return
    /\ UNCHANGED <<files, now, esmModules, smilesModuleCache, loads>>

LoadMissEvicting(filePath) ==
    \E b \in {LoadBegin(smilesModuleCache, esmModules, filePath, files[filePath], now)} :
    /\ BagCardinality(loads) < MaxLoads
    /\ b.kind = "miss"
    /\ esmModules' = b.modules
    /\ smilesModuleCache' = MapClear(smilesModuleCache)
    /\ loads' = loads (+) SetToBag({[key |-> b.key, url |-> b.url]})
    /\ UNCHANGED <<files, now, lastReturn>>

LoadMiss(filePath) ==
    \E b \in {LoadBegin(smilesModuleCache, esmModules, filePath, files[filePath], now)} :
    /\ BagCardinality(loads) < MaxLoads
    /\ b.kind = "miss"
    /\ esmModules' = b.modules
    /\ loads' = loads (+) SetToBag({[key |-> b.key, url |-> b.url]})
    /\ UNCHANGED <<files, now, smilesModuleCache, lastReturn>>

LoadResume(l) ==
    /\ BagIn(l, loads)
    /\ esmModules[l.url].st \in {"evaluated", "errored"}
    /\ loads' = loads (-) SetToBag({l})
    /\ \E e \in {LoadEnd(smilesModuleCache, esmModules, l)} :
         /\ smilesModuleCache' = e.cache
         /\ lastReturn' = e.return
    /\ UNCHANGED <<files, now, esmModules>>

\* the file is written by another program
FileWrite(filePath) ==
    /\ files[filePath].mtimeMs < MaxMtime
    /\ files' = WriteFile(files, filePath, files[filePath].lines)
    /\ UNCHANGED <<now, esmModules, smilesModuleCache, loads, lastReturn>>

(***************************************************************************)
(* The editor's documents                                                  *)
(***************************************************************************)

DslDocs == {"basic.selfies", "other.selfies"}
PlainDocs == {"notes.txt"}

\* no document: an undefined editor, a null this._currentDocument
NoDoc == "none"
\* this._currentLine === null
NoLine == -1

\* document.languageId and document.fileName.endsWith('.smiles.js')
LanguageId(document) ==
    IF document \in DslDocs THEN "selfies"
    ELSE IF document \in Paths THEN "javascript" ELSE "plaintext"
EndsWithSmilesJs(document) == document \in Paths

\* this._isSupportedFile
IsSupportedFileAnyLanguage(document) == TRUE
IsSupportedFile(document) ==
    LanguageId(document) = "selfies" \/ EndsWithSmilesJs(document)

\* A line of text is the sequence of its lexemes; " " is white space.
\* String.prototype.trim
RECURSIVE TrimStart(_)
TrimStart(s) == IF s # <<>> /\ Head(s) = " " THEN TrimStart(Tail(s)) ELSE s
RECURSIVE TrimEnd(_)
TrimEnd(s) ==
    IF s # <<>> /\ s[Len(s)] = " " THEN TrimEnd(SubSeq(s, 1, Len(s) - 1)) ELSE s
Trim(s) == TrimEnd(TrimStart(s))

\* String.prototype.startsWith, for a one-lexeme prefix
StartsWith(s, lexeme) == s # <<>> /\ Head(s) = lexeme

(***************************************************************************)
(* The lines of a smiles-js document and the module they make              *)
(***************************************************************************)

\* the lexeme at the 1-based index i, "" past the end of the line
At(line, i) == IF i \in 1..Len(line) THEN line[i] ELSE ""

\* \s*: the index of the first lexeme at or after i that is no white space
RECURSIVE SkipSpaces(_, _)
SkipSpaces(line, i) ==
    IF i <= Len(line) /\ line[i] = " " THEN SkipSpaces(line, i + 1) ELSE i

\* const\s+(\w+)\s*= matched at the index i: the name, or Null
MatchConst(line, i) ==
    LET j == SkipSpaces(line, i + 1)
        k == SkipSpaces(line, j + 1) IN
    IF At(line, i) = "const" /\ At(line, i + 1) = " "
       /\ At(line, j) \in {"a", "b", "c", "export", "const", "import", "txt"}  \* \w+
       /\ At(line, k) = "="
        THEN Some(line[j]) ELSE Null

\* export\s+const\s+(\w+)\s*= matched at the index i: the name, or Null
MatchExportConst(line, i) ==
    IF At(line, i) = "export" /\ At(line, i + 1) = " "
        THEN MatchConst(line, SkipSpaces(line, i + 1)) ELSE Null

\* _findConstAtLine
FindConstAtLine(lines, lineNumber) ==
    IF lineNumber >= Len(lines) \/ lines[lineNumber + 1] = <<>> THEN Null
    ELSE LET line == lines[lineNumber + 1]
             exportMatches == {i \in 1..Len(line) : MatchExportConst(line, i) # Null}
             first == CHOOSE i \in exportMatches : \A j \in exportMatches : i <= j
             leadingWhitespace == SkipSpaces(line, 1) - 1
             constMatch == MatchConst(line, leadingWhitespace + 1) IN
         IF exportMatches # {}
             THEN Some([name |-> MatchExportConst(line, first)[1],
                        needsExport |-> FALSE, constPosition |-> Null])
         ELSE IF constMatch # Null
             THEN Some([name |-> constMatch[1], needsExport |-> TRUE,
                        constPosition |-> Some(leadingWhitespace)])
         ELSE Null

\* editBuilder.insert(new vscode.Position(line, constPosition), 'export ')
ApplyInsert(lines, edit) ==
    IF edit.line < Len(lines)
        THEN [lines EXCEPT ![edit.line + 1] =
                 SubSeq(@, 1, edit.position) \o <<"export", " ">>
                 \o SubSeq(@, edit.position + 1, Len(@))]
        ELSE lines

\* What an expression of a smiles-js file evaluates to: a Fragment of the
\* library, with its smiles, or a number.
Fragment(smiles, molecularWeight, formula) ==
    [type |-> "Fragment", smiles |-> smiles, molecularWeight |-> molecularWeight,
     formula |-> formula]
\* !value and !value.smiles
IsFalsy(value) == value.type = "number" /\ value.value = 0
HasSmiles(value) == value.type = "Fragment" /\ value.smiles # ""

\* the module namespace a file gives when it is executed: the value of each
\* name its lines export
ExportedName(line) == MatchExportConst(line, SkipSpaces(line, 1))
ModuleExports(source) ==
    LET exporting == {i \in 1..Len(source) : ExportedName(source[i]) # Null}
        ExpressionOf(line) ==
            LET equals == CHOOSE i \in 1..Len(line) : line[i] = "=" IN
            At(line, SkipSpaces(line, equals + 1))
        ValueOf(expression) ==
            CASE expression = "Fragment('C')" -> Fragment("C", 16, "CH4")
              [] expression = "0" -> [type |-> "number", value |-> 0]
              [] OTHER -> [type |-> "number", value |-> 5] IN
    [name \in {ExportedName(source[i])[1] : i \in exporting} |->
        ValueOf(ExpressionOf(
            source[CHOOSE i \in exporting : ExportedName(source[i])[1] = name]))]

\* the texts a smiles-js document takes
Const(name, expression) == <<"const", " ", name, " ", "=", " ", expression>>

\* an exported fragment and a fragment that is not exported
TextFragments == << <<"export", " ">> \o Const("a", "Fragment('C')"),
                    Const("b", "Fragment('C')") >>
\* a comment and an indented declaration of a number
TextNumbers == << <<"//", " ", "txt">>, <<" ">> \o Const("c", "5") >>

(***************************************************************************)
(* The DSL engine (selfies-js), by its contract: loadWithImports, resolve, *)
(* decode, getMolecularWeight, getFormula                                  *)
(***************************************************************************)

Names == {"methyl", "ethyl", "propyl", "hydroxyl", "amino",
          "ok", "undef", "loop", "bad", "wild", "iso", "rep", "a"}
Bracket(name) == "[" \o name \o "]"
IsReference(lexeme) == lexeme \in {Bracket(n) : n \in Names}
NameOf(lexeme) == CHOOSE n \in Names : Bracket(n) = lexeme

\* the lexeme of a repeat call and the token the parser makes of it
RepeatLexeme == "repeat([C], 2)"
TokenOf(lexeme) ==
    IF lexeme = RepeatLexeme
        THEN [type |-> "REPEAT_CALL", pattern |-> "[C]", count |-> 2]
        ELSE [type |-> "STR", value |-> lexeme]

\* the line without its trailing comment
RECURSIVE BeforeComment(_)
BeforeComment(s) ==
    IF s = <<>> \/ Head(s) = "#" THEN <<>> ELSE <<Head(s)>> \o BeforeComment(Tail(s))

NoSpace(s) == SelectSeq(s, LAMBDA x : x # " ")

\* a line holds a definition when it reads [name] = token token ...
IsDefinitionLine(line) ==
    LET w == NoSpace(BeforeComment(line)) IN
    /\ Len(w) >= 3
    /\ IsReference(w[1])
    /\ w[2] = "="
    /\ \A i \in 3..Len(w) :
           \/ w[i] \in {"[C]", "[N]", "[O]", "[Xx]", "[*]", "[13C]"}
           \/ IsReference(w[i])
           \/ w[i] = RepeatLexeme

\* the Definition of the line at the 1-based line number n
DefinitionAtZeroBased(line, n) ==
    LET w == NoSpace(BeforeComment(line)) IN
    [name |-> NameOf(w[1]), line |-> n - 1,
     tokens |-> [i \in 1..(Len(w) - 2) |-> TokenOf(w[i + 2])]]
DefinitionAt(line, n) ==
    LET w == NoSpace(BeforeComment(line)) IN
    [name |-> NameOf(w[1]), line |-> n,
     tokens |-> [i \in 1..(Len(w) - 2) |-> TokenOf(w[i + 2])]]


\* definitions.values(): the definitions in the order of their lines, each with
\* the 1-based number of its line
RECURSIVE DefinitionsFrom(_, _)
DefinitionsFrom(lines, n) ==
    IF n > Len(lines) THEN <<>>
    ELSE (IF IsDefinitionLine(lines[n]) THEN <<DefinitionAt(lines[n], n)>> ELSE <<>>)
         \o DefinitionsFrom(lines, n + 1)

(***************************************************************************)
(* The texts the documents take                                            *)
(***************************************************************************)

Comment == <<"#", " ", "txt">>
Blank == <<>>
Def1(name, t1) == <<Bracket(name), " ", "=", " ", t1>>
Def2(name, t1, t2) == <<Bracket(name), " ", "=", " ", t1, t2>>

\* line-numbers-basic.selfies up to its line 11: definitions at the 1-based
\* lines 5, 6, 7, 10 and 11 (part_004:229-237)
TextBasic ==
    << Comment, Comment, Blank, Comment,
       Def1("methyl", "[C]"), Def2("ethyl", "[C]", "[C]"),
       Def2("propyl", "[C]", "[C]") \o <<"[C]">>,
       Comment, Blank,
       Def1("hydroxyl", "[O]"), Def1("amino", "[N]") >>

\* definitions whose resolution fails at each stage, a comment after white space,
\* a line of white space and a line that is no definition
TextStages ==
    << Def2("ok", "[C]", "[O]"),
       Def2("undef", "[missing]", "[C]") ,
       Def2("loop", "[loop]", "[C]"),
       Def2("bad", "[C]", "[Xx]"),
       Def2("wild", "[C]", "[*]"),
       <<" ", "#", "txt">>,
       Def2("rep", RepeatLexeme, "[ok]") \o <<" ", "#", "txt">>,
       Def1("iso", "[13C]"),
       <<" ", " ">>,
       <<"[C]", "txt">> >>

\* the texts of a selfies document, the last with an import that cannot be
\* resolved
DslTexts == {TextBasic, TextStages,
             << <<"import", " ", "\"./missing.selfies\"">>, Def1("a", "[C]") >>}
PlainTexts == { <<<<"txt">>>>, <<<<"txt">>, <<"txt">>>> }

\* the lines a cursor can be on in a document
LinesOf(txt, document) == 0..(Len(txt[document]) - 1)

\* loadWithImports(text, path): throws, or gives the parse result; an import
\* of a file that does not exist makes it throw
ParseText(lines) ==
    IF \E i \in 1..Len(lines) :
           /\ StartsWith(Trim(lines[i]), "import")
           /\ "\"./missing.selfies\"" \in {lines[i][k] : k \in 1..Len(lines[i])}
        THEN [threw |-> TRUE, message |-> "Cannot resolve import",
              definitions |-> <<>>]
        ELSE [threw |-> FALSE, message |-> "",
              definitions |-> DefinitionsFrom(lines, 1)]
\* (the parse of each text, computed once)
ParseOfText == [lines \in DslTexts \cup PlainTexts |-> ParseText(lines)]
LoadWithImports(lines) == ParseOfText[lines]

\* the definition named name among the parsed definitions, if any
HasDefinition(definitions, name) ==
    \E i \in 1..Len(definitions) : definitions[i].name = name
GetDefinition(definitions, name) ==
    definitions[CHOOSE i \in 1..Len(definitions) : definitions[i].name = name]

RECURSIVE Repeat(_, _)
Repeat(s, count) == IF count <= 0 THEN <<>> ELSE s \o Repeat(s, count - 1)

\* resolve(parseResult, name, {validateValence: false}): the notation, a sequence
\* of atoms, or the message of the error thrown for an undefined or circular name
RECURSIVE ResolveName(_, _, _)
RECURSIVE ResolveTokens(_, _, _)
ResolveLexeme(definitions, lexeme, visiting) ==
    IF IsReference(lexeme)
        THEN ResolveName(definitions, NameOf(lexeme), visiting)
        ELSE [threw |-> FALSE, message |-> "", value |-> <<lexeme>>]
ResolveTokens(definitions, tokens, visiting) ==
    IF tokens = <<>> THEN [threw |-> FALSE, message |-> "", value |-> <<>>]
    ELSE LET t == Head(tokens)
             first == IF t.type = "REPEAT_CALL"
                          THEN LET r == ResolveLexeme(definitions, t.pattern, visiting) IN
                               [r EXCEPT !.value = Repeat(r.value, t.count)]
                          ELSE ResolveLexeme(definitions, t.value, visiting) IN
         IF first.threw THEN first
         ELSE LET rest == ResolveTokens(definitions, Tail(tokens), visiting) IN
              IF rest.threw THEN rest
              ELSE [threw |-> FALSE, message |-> "", value |-> first.value \o rest.value]
ResolveName(definitions, name, visiting) ==
    IF ~HasDefinition(definitions, name)
        THEN [threw |-> TRUE, message |-> "Undefined definition: " \o name, value |-> <<>>]
    ELSE IF name \in visiting
        THEN [threw |-> TRUE, message |-> "Circular dependency: " \o name, value |-> <<>>]
    ELSE ResolveTokens(definitions, GetDefinition(definitions, name).tokens,
                       visiting \cup {name})
\* (the resolution of each name under each parse, computed once)
ResolveOf == [definitions \in {ParseOfText[lines].definitions : lines \in DOMAIN ParseOfText} |->
                [name \in Names |-> ResolveName(definitions, name, {})]]
Resolve(parse, name) == ResolveOf[parse.definitions][name]

\* decode(selfies): the derived notation, or the message of the error thrown for
\* a symbol that is no element
DecodeAtom(atom) ==
    CASE atom = "[C]" -> "C" [] atom = "[N]" -> "N" [] atom = "[O]" -> "O"
      [] atom = "[13C]" -> "[13C]" [] OTHER -> "*"
Decode(selfies) ==
    IF \E i \in 1..Len(selfies) : selfies[i] = "[Xx]"
        THEN [threw |-> TRUE, message |-> "Invalid SELFIES token: [Xx]", value |-> <<>>]
        ELSE [threw |-> FALSE, message |-> "",
              value |-> [i \in 1..Len(selfies) |-> DecodeAtom(selfies[i])]]

\* getMolecularWeight(selfies) and getFormula(selfies): a wildcard atom has no
\* weight, an isotope no formula
RECURSIVE SumWeights(_)
SumWeights(selfies) ==
    LET AtomWeight(atom) ==
        CASE atom = "[C]" -> 12 [] atom = "[N]" -> 14 [] atom = "[O]" -> 16 [] OTHER -> 13 IN
    IF selfies = <<>> THEN 0 ELSE AtomWeight(Head(selfies)) + SumWeights(Tail(selfies))
GetMolecularWeight(selfies) ==
    IF \E i \in 1..Len(selfies) : selfies[i] = "[*]"
        THEN [threw |-> TRUE, message |-> "Unknown element", value |-> 0]
        ELSE [threw |-> FALSE, message |-> "", value |-> SumWeights(selfies)]
GetFormula(selfies) ==
    IF \E i \in 1..Len(selfies) : selfies[i] \in {"[*]", "[13C]"}
        THEN [threw |-> TRUE, message |-> "Unknown element", value |-> <<>>]
        ELSE [threw |-> FALSE, message |-> "",
              value |-> [i \in 1..Len(selfies) |-> DecodeAtom(selfies[i])]]

(***************************************************************************)
(* The tracker: the resolution of the current line                         *)
(***************************************************************************)

\* The tracker's fields and the host's state a handler reads and writes, with
\* what the handler of the current event has done so far: updates counts its
\* calls of _updateLineInfo, parsed its calls of loadWithImports, fired lists what
\* it gave to _onDidChangeCurrentLine.fire, started lists its calls of
\* _loadSmilesModule.
TrackerOf(line, document, parse, modules, cache, return, suspended, count) ==
    [currentLine |-> line, currentDocument |-> document, parseResult |-> parse,
     esmModules |-> modules, smilesModuleCache |-> cache, lastReturn |-> return,
     resolves |-> suspended, seq |-> count,
     updates |-> 0, parsed |-> 0, fired |-> <<>>, started |-> <<>>]

\* the fields as the constructor sets them first (lineTracker.js:17-19, 39)
NewTracker(modules) == TrackerOf(NoLine, NoDoc, Null, modules, {}, NoReturn, {}, 0)

\* What a handler reads of the editor and of the host: the documents' lines, the
\* active editor, the files, the clock, and whether the file of the tracked
\* document is away when fs.statSync looks for it.
EnvOf(txt, editor, fs, t, away) ==
    [text |-> txt, activeTextEditor |-> editor, files |-> fs, now |-> t, away |-> away]

Fire(t, info) == [t EXCEPT !.fired = Append(@, info)]

\* _formatTokens
FormatToken(token) ==
    IF token.type = "STR" THEN token.value
    ELSE IF token.type = "REPEAT_CALL"
        THEN "repeat(" \o token.pattern \o ", " \o ToString(token.count) \o ")"
    ELSE "[object Object]"
RECURSIVE Join(_)
Join(strings) == IF strings = <<>> THEN "" ELSE Head(strings) \o Join(Tail(strings))
FormatTokens(tokens) == Join([i \in 1..Len(tokens) |-> FormatToken(tokens[i])])

\* definitionsArray.find((def) => def.line === this._currentLine + 1)
FindDefinitionSameIndex(definitions, line) ==
    LET hits == {i \in 1..Len(definitions) : definitions[i].line = line} IN
    IF hits = {} THEN Null
    ELSE Some(definitions[CHOOSE i \in hits : \A j \in hits : i <= j])
FindDefinition(definitions, line) ==
    LET hits == {i \in 1..Len(definitions) : definitions[i].line = line + 1} IN
    IF hits = {} THEN Null
    ELSE Some(definitions[CHOOSE i \in hits : \A j \in hits : i <= j])

\* _updateLineInfo from the resolver on (lineTracker.js:296-346): the object
\* fired for a definition
LineInfoDroppingError(parse, definition, line) ==
    LET r == Resolve(parse, definition.name)
        expression == FormatTokens(definition.tokens) IN
    IF r.threw \/ r.value = <<>>
        THEN [line |-> line, name |-> definition.name, expression |-> expression,
              error |-> Some("Could not resolve definition")]
        ELSE LET d == Decode(r.value)
                 w == GetMolecularWeight(r.value)
                 f == GetFormula(r.value) IN
             [line |-> line, name |-> definition.name, expression |-> expression,
              selfies |-> Some(r.value),
              smiles |-> IF d.threw THEN Null ELSE Some(d.value),
              molecularWeight |-> IF ~d.threw /\ ~w.threw THEN Some(w.value) ELSE Null,
              formula |-> IF ~d.threw /\ ~w.threw /\ ~f.threw THEN Some(f.value) ELSE Null,
              error |-> Null]
LineInfo(parse, definition, line) ==
    LET r == Resolve(parse, definition.name)
        selfies == IF r.threw THEN Null ELSE Some(r.value)
        resolveError == IF r.threw THEN Some(r.message) ELSE Null
        expression == FormatTokens(definition.tokens) IN
    IF selfies = Null \/ selfies[1] = <<>>
        THEN [line |-> line, name |-> definition.name, expression |-> expression,
              error |-> IF resolveError # Null THEN resolveError
                        ELSE Some("Could not resolve definition")]
        ELSE LET d == Decode(selfies[1])
                 smiles == IF d.threw THEN Null ELSE Some(d.value)
                 error == IF d.threw THEN Some(d.message) ELSE resolveError
                 w == GetMolecularWeight(selfies[1])
                 f == GetFormula(selfies[1])
                 \* the lookups run when there is no error; what they throw is
                 \* caught and dropped, the weight looked up first
                 molecularWeight ==
                     IF error = Null /\ ~w.threw THEN Some(w.value) ELSE Null
                 formula ==
                     IF error = Null /\ ~w.threw /\ ~f.threw THEN Some(f.value) ELSE Null IN
             [line |-> line, name |-> definition.name, expression |-> expression,
              selfies |-> selfies, smiles |-> smiles,
              molecularWeight |-> molecularWeight, formula |-> formula,
              error |-> error]


\* _updateLineInfo for a selfies document whose current line exists
\* (lineTracker.js:273-348)
UpdateSelfiesLine(t, lines) ==
    LET lineText == Trim(lines[t.currentLine + 1])
        needParse == t.parseResult = Null
        loaded == LoadWithImports(lines) IN
    IF needParse /\ loaded.threw
        THEN Fire([t EXCEPT !.parsed = @ + 1],
                  Some([line |-> t.currentLine, error |-> Some(loaded.message)]))
        ELSE LET t1 == IF needParse
                           THEN [t EXCEPT !.parsed = @ + 1,
                                          !.parseResult =
                                              Some([definitions |-> loaded.definitions])]
                           ELSE t
                 definition == FindDefinition(t1.parseResult[1].definitions,
                                              t1.currentLine) IN
             IF lineText = <<>> \/ StartsWith(lineText, "#") THEN Fire(t1, Null)
             ELSE IF definition = Null THEN Fire(t1, Null)
             ELSE Fire(t1, Some(LineInfo(t1.parseResult[1], definition[1], t1.currentLine)))

\* A call of _updateLineInfo for a smiles-js document, suspended at an await:
\* id numbers the calls as they suspend; document and line are the tracked
\* document and line when the call began; name and expression are its exportName
\* and lineText; pc says which await it is at ("edit", "save" or "load"), with the
\* edit it asked for (stale once the document has changed since), the document
\* it saves, or the import it waits for.
NewResolve(t, name, expression) ==
    [id |-> t.seq + 1, document |-> t.currentDocument, line |-> t.currentLine,
     name |-> name, expression |-> expression,
     pc |-> "start", edit |-> Null, stale |-> FALSE, saving |-> NoDoc, load |-> Null]
SuspendCancelling(t, r) ==
    [t EXCEPT !.resolves = {r}, !.seq = IF r.id > @ THEN r.id ELSE @]
Suspend(t, r) ==
    [t EXCEPT !.resolves = @ \cup {r}, !.seq = IF r.id > @ THEN r.id ELSE @]

\* _updateLineInfo from the result of the load on (lineTracker.js:228-270)
FireLoadedWithError(t, r, result) ==
    IF result.error # Null
        THEN Fire(t, Some([line |-> t.currentLine, name |-> r.name,
                           expression |-> r.expression, error |-> result.error]))
        ELSE LET exports == ModuleExports(t.esmModules[result.module[1]].source) IN
             IF r.name \notin DOMAIN exports \/ IsFalsy(exports[r.name])
                    \/ ~HasSmiles(exports[r.name])
                 THEN Fire(t, Some([line |-> t.currentLine, name |-> r.name,
                                    expression |-> r.expression,
                                    error |-> Some("Not a fragment")]))
             ELSE Fire(t, Some([line |-> t.currentLine, name |-> r.name,
                                expression |-> r.expression, selfies |-> Null,
                                smiles |-> Some(exports[r.name].smiles),
                                molecularWeight |-> Some(exports[r.name].molecularWeight),
                                formula |-> Some(exports[r.name].formula),
                                error |-> Null]))
FireLoaded(t, r, result) ==
    IF result.error # Null
        THEN Fire(t, Some([line |-> t.currentLine, name |-> r.name,
                           expression |-> r.expression, error |-> result.error]))
        ELSE LET exports == ModuleExports(t.esmModules[result.module[1]].source) IN
             IF r.name \notin DOMAIN exports \/ IsFalsy(exports[r.name])
                 THEN Fire(t, Null)
             ELSE IF ~HasSmiles(exports[r.name]) THEN Fire(t, Null)
             ELSE Fire(t, Some([line |-> t.currentLine, name |-> r.name,
                                expression |-> r.expression, selfies |-> Null,
                                smiles |-> Some(exports[r.name].smiles),
                                molecularWeight |-> Some(exports[r.name].molecularWeight),
                                formula |-> Some(exports[r.name].formula),
                                error |-> Null]))

\* _updateLineInfo without its outer catch: a load that throws ends the call
\* with nothing fired
LoadSmilesJsUncaught(t0, env, r) ==
    LET filePath == t0.currentDocument
        t == [t0 EXCEPT !.started =
                 Append(@, [resolve |-> r.id, document |-> filePath, line |-> r.line,
                            expression |-> r.expression])] IN
    IF env.away
        THEN [t EXCEPT !.lastReturn = LoadRejected(t.smilesModuleCache, filePath)]
        ELSE LET b == LoadBegin(t.smilesModuleCache, t.esmModules, filePath,
                                env.files[filePath], env.now) IN
             IF b.kind = "hit"
                 THEN FireLoaded([t EXCEPT !.lastReturn = b.return], r,
                                 [module |-> Some(b.url), error |-> Null])
                 ELSE Suspend([t EXCEPT !.esmModules = b.modules],
                              [r EXCEPT !.pc = "load",
                                        !.load = Some([key |-> b.key, url |-> b.url])])
\* _updateLineInfo from its call of _loadSmilesModule (lineTracker.js:224-226) to
\* the await of the import, or to the end when the call does not reach an import
LoadSmilesJs(t0, env, r) ==
    LET filePath == t0.currentDocument
        t == [t0 EXCEPT !.started =
                 Append(@, [resolve |-> r.id, document |-> filePath, line |-> r.line,
                            expression |-> r.expression])] IN
    IF env.away
        THEN \* fs.statSync throws, and the catch of _updateLineInfo takes it
             Fire([t EXCEPT !.lastReturn = LoadRejected(t.smilesModuleCache, filePath)],
                  Some([line |-> t.currentLine,
                        error |-> Some("ENOENT: no such file or directory")]))
        ELSE LET b == LoadBegin(t.smilesModuleCache, t.esmModules, filePath,
                                env.files[filePath], env.now) IN
             IF b.kind = "hit"
                 THEN FireLoaded([t EXCEPT !.lastReturn = b.return], r,
                                 [module |-> Some(b.url), error |-> Null])
                 ELSE Suspend([t EXCEPT !.esmModules = b.modules],
                              [r EXCEPT !.pc = "load",
                                        !.load = Some([key |-> b.key, url |-> b.url])])

\* _updateLineInfo for a smiles-js document whose current line exists, to its
\* first await (lineTracker.js:193-226)
UpdateSmilesJsLineWithoutEdit(t, env, lines) ==
    LET lineText == Trim(lines[t.currentLine + 1])
        constInfo == FindConstAtLine(lines, t.currentLine) IN
    IF lineText = <<>> \/ StartsWith(lineText, "//") \/ StartsWith(lineText, "/*")
        THEN Fire(t, Null)
    ELSE IF constInfo = Null THEN Fire(t, Null)
    ELSE LoadSmilesJs(t, env, NewResolve(t, constInfo[1].name, lineText))
UpdateSmilesJsLine(t, env, lines) ==
    LET lineText == Trim(lines[t.currentLine + 1])
        constInfo == FindConstAtLine(lines, t.currentLine) IN
    IF lineText = <<>> \/ StartsWith(lineText, "//") \/ StartsWith(lineText, "/*")
        THEN Fire(t, Null)
    ELSE IF constInfo = Null THEN Fire(t, Null)
    ELSE LET r == NewResolve(t, constInfo[1].name, lineText) IN
         IF /\ constInfo[1].needsExport
            /\ env.activeTextEditor # NoDoc
            /\ env.activeTextEditor = t.currentDocument
             THEN Suspend(t, [r EXCEPT !.pc = "edit",
                                       !.edit = Some([document |-> t.currentDocument,
                                                      line |-> t.currentLine,
                                                      position |->
                                                          constInfo[1].constPosition[1]])])
             ELSE LoadSmilesJs(t, env, r)

\* _updateLineInfo, to its first await
UpdateLineInfo(t, env) ==
    LET t0 == [t EXCEPT !.updates = @ + 1] IN
    IF t.currentDocument = NoDoc \/ t.currentLine = NoLine THEN t0
    ELSE LET lines == env.text[t.currentDocument] IN
         IF t.currentLine >= Len(lines)
             THEN \* document.lineAt throws
                  Fire(t0, Some([line |-> t.currentLine,
                                 error |-> Some("Illegal value for line")]))
         ELSE IF EndsWithSmilesJs(t.currentDocument)
             THEN UpdateSmilesJsLine(t0, env, lines)
             ELSE UpdateSelfiesLine(t0, lines)

\* _handleSelectionChange
HandleSelectionChangeAlways(t, env, editor, line) ==
    IF editor = NoDoc \/ ~IsSupportedFile(editor) THEN t
    ELSE UpdateLineInfo([t EXCEPT !.currentLine = line], env)
HandleSelectionChange(t, env, editor, line) ==
    IF editor = NoDoc \/ ~IsSupportedFile(editor) THEN t
    ELSE IF t.currentLine # line
        THEN UpdateLineInfo([t EXCEPT !.currentLine = line], env)
        ELSE t

\* _handleDocumentChange
HandleDocumentChangeKeepingParse(t, env, document) ==
    IF ~IsSupportedFile(document) THEN t ELSE UpdateLineInfo(t, env)
HandleDocumentChange(t, env, document) ==
    IF ~IsSupportedFile(document) THEN t
    ELSE UpdateLineInfo([t EXCEPT !.parseResult = Null], env)

\* the listener of onDidChangeTextDocument looking at the active editor, not at
\* the tracked document
DocumentChangeListenerOfActive(t, env, document) ==
    IF env.activeTextEditor # NoDoc /\ document = env.activeTextEditor
        THEN HandleDocumentChange(t, env, document)
        ELSE t
\* the listener of onDidChangeTextDocument
DocumentChangeListener(t, env, document) ==
    IF t.currentDocument # NoDoc /\ document = t.currentDocument
        THEN HandleDocumentChange(t, env, document)
        ELSE t

\* the listener of onDidChangeActiveTextEditor
EditorChangeListenerKeepingParse(t, env, editor, line) ==
    IF editor # NoDoc /\ IsSupportedFile(editor)
        THEN UpdateLineInfo([t EXCEPT !.currentDocument = editor,
                                      !.currentLine = line], env)
        ELSE t
EditorChangeListener(t, env, editor, line) ==
    IF editor # NoDoc /\ IsSupportedFile(editor)
        THEN LET documentChanged == t.currentDocument # editor
                 t1 == IF documentChanged
                           THEN [t EXCEPT !.parseResult = Null,
                                          !.currentDocument = editor]
                           ELSE t IN
             UpdateLineInfo([t1 EXCEPT !.currentLine = line], env)
        ELSE t

\* getCurrentLineInfo: starts a resolve of the tracked line and returns null
GetCurrentLineInfo(t, env) == UpdateLineInfo(t, env)

\* the constructor, with the editor active when the extension starts
Constructor(env, modules, editor, line) ==
    IF editor # NoDoc /\ IsSupportedFile(editor)
        THEN HandleSelectionChange([NewTracker(modules) EXCEPT !.currentDocument = editor],
                                   env, editor, line)
        ELSE NewTracker(modules)

(***************************************************************************)
(* The diagnostics of a document (src/src/diagnostics.js)                  *)
(*                                                                         *)
(* The providers read the characters of a line, so a line is a string here *)
(* and a column is an index into it, counted from 0 as the editor does.    *)
(***************************************************************************)

\* the n characters of s from the 0-based index i on; "" when s has not that many
Substr(s, i, n) == IF i >= 0 /\ i + n <= Len(s) THEN SubSeq(s, i + 1, i + n) ELSE ""

\* the arrays of an array pushed one after the other into one
RECURSIVE Concat(_)
Concat(arrays) == IF arrays = <<>> THEN <<>> ELSE Head(arrays) \o Concat(Tail(arrays))

\* String.prototype.indexOf: the 0-based index of the first occurrence of sub in
\* s at or after the 0-based index from, or -1
IndexOf(s, sub, from) ==
    LET hits == {i \in from..(Len(s) - Len(sub)) : Substr(s, i, Len(sub)) = sub} IN
    IF hits = {} THEN -1 ELSE CHOOSE i \in hits : \A j \in hits : i <= j

\* the 0-based index of the first character at or after i that is not a space
RECURSIVE SkipWhite(_, _)
SkipWhite(s, i) == IF i < Len(s) /\ Substr(s, i, 1) = " " THEN SkipWhite(s, i + 1) ELSE i

Quotes == {"'", "\""}
Digits == {"0", "1", "2", "3", "4", "5", "6", "7", "8", "9"}

\* new vscode.Range(start, end): the editor puts the earlier position first
Range(startLine, startCharacter, endLine, endCharacter) ==
    IF endLine < startLine \/ (endLine = startLine /\ endCharacter < startCharacter)
        THEN [start |-> [line |-> endLine, character |-> endCharacter],
              end |-> [line |-> startLine, character |-> startCharacter]]
        ELSE [start |-> [line |-> startLine, character |-> startCharacter],
              end |-> [line |-> endLine, character |-> endCharacter]]

\* new vscode.Diagnostic(range, message, severity) and the fields set on it
Diagnostic(range, message, severity, source, code, relatedInformation, tags) ==
    [range |-> range, message |-> message, severity |-> severity, source |-> source,
     code |-> code, relatedInformation |-> relatedInformation, tags |-> tags]

\* line.match(/import\s+.*\s+from\s+['"](.+)['"]/): the path it captures, or Null.
\* The quantifiers are greedy: the last "from" that fits and the last quote of
\* the line are taken.
ImportMatch(line) ==
    LET White(i) == Substr(line, i, 1) = " "
        Quote(i) == Substr(line, i, 1) \in Quotes
        Froms(i) == {f \in (i + 8)..Len(line) :
                        /\ White(f - 1)
                        /\ Substr(line, f, 4) = "from"
                        /\ White(f + 4)
                        /\ Quote(SkipWhite(line, f + 4))
                        /\ \E e \in (SkipWhite(line, f + 4) + 2)..(Len(line) - 1) : Quote(e)}
        imports == {i \in 0..Len(line) :
                       Substr(line, i, 6) = "import" /\ White(i + 6) /\ Froms(i) # {}}
        first == CHOOSE i \in imports : \A i2 \in imports : i <= i2
        from == CHOOSE f \in Froms(first) : \A f2 \in Froms(first) : f2 <= f
        open == SkipWhite(line, from + 4)
        close == CHOOSE e \in (open + 2)..(Len(line) - 1) :
                    /\ Quote(e)
                    /\ \A e2 \in (e + 1)..(Len(line) - 1) : ~Quote(e2) IN
    IF imports = {} THEN Null ELSE Some(SubSeq(line, open + 2, close))

\* line.match(/Ring\(['"][a-z]['"],\s*\d+\)/)
OldRingMatch(line) ==
    LET LowerCase == {"a", "b", "c", "d", "e", "f", "g", "h", "i", "j", "k", "l", "m",
                      "n", "o", "p", "q", "r", "s", "t", "u", "v", "w", "x", "y", "z"} IN
    \E i \in 0..Len(line) :
        /\ Substr(line, i, 5) = "Ring("
        /\ Substr(line, i + 5, 1) \in Quotes
        /\ Substr(line, i + 6, 1) \in LowerCase
        /\ Substr(line, i + 7, 1) \in Quotes
        /\ Substr(line, i + 8, 1) = ","
        /\ LET d == SkipWhite(line, i + 9)
               e == CHOOSE e \in d..Len(line) :
                        /\ \A k \in d..(e - 1) : Substr(line, k, 1) \in Digits
                        /\ Substr(line, e, 1) \notin Digits IN
           /\ e > d
           /\ Substr(line, e, 1) = ")"

\* validateJavaScriptImports: what it pushes for the line i (counted from 0),
\* line after line
ValidateJavaScriptImports(lines) ==
    Concat([n \in 1..Len(lines) |->
    LET line == lines[n]
        i == n - 1
        importMatch == ImportMatch(line)
        deprecatedImport ==
            IF importMatch # Null /\ IndexOf(importMatch[1], "/fragment", 0) >= 0
                THEN <<Diagnostic(
                         Range(i, 0, i, Len(line)),
                         "Deprecated import path: '" \o importMatch[1]
                             \o "'. Use './index.js' or 'smiles-js' instead. "
                             \o "The Fragment API has been updated.",
                         "Error", "smiles-js", Some("deprecated-import"),
                         Some("Replace with: import { parse, Ring, Linear, Fragment } "
                              \o "from '../src/index.js';"),
                         <<>>)>>
                ELSE <<>>
        attachAt == IndexOf(line, ".attachAt(", 0)
        deprecatedMethod ==
            IF importMatch # Null /\ attachAt >= 0
                THEN <<Diagnostic(
                         Range(i, attachAt, i, attachAt + 9),
                         "Method .attachAt() has been replaced with .attach() in the new API",
                         "Error", "smiles-js", Some("deprecated-method"), Null, <<>>)>>
                ELSE <<>>
        ring == IndexOf(line, "Ring(", 0)
        deprecatedApi ==
            IF OldRingMatch(line)
                THEN <<Diagnostic(
                         Range(i, ring, i, Len(line)),
                         "Old Ring API: Use Ring({ atoms: 'c', size: 6 }) "
                             \o "instead of Ring('c', 6)",
                         "Error", "smiles-js", Some("deprecated-api"), Null, <<>>)>>
                ELSE <<>> IN
    deprecatedImport \o deprecatedMethod \o deprecatedApi])

\* getSeverity, for error.type || error.severity: Null when neither is set
GetSeverity(type) ==
    IF type = Null THEN "Error"
    ELSE IF type[1] \in {"error", "syntax", "undefined", "circular", "redefinition"}
        THEN "Error"
    ELSE IF type[1] \in {"warning", "chemistry"} THEN "Warning"
    ELSE IF type[1] = "info" THEN "Information"
    ELSE IF type[1] = "hint" THEN "Hint"
    ELSE "Error"

\* the range of an error or a warning of the engine (diagnostics.js:174-181)
RangeOfOneBased(error) ==
    LET line == IF error.line # Null THEN error.line[1] ELSE 0
        column == IF error.column # Null THEN error.column[1] ELSE 0
        endColumn == IF error.endColumn # Null THEN error.endColumn[1] ELSE column + 1 IN
    Range(line, column, line, endColumn)
RangeOf(error) ==
    LET line == IF error.line # Null THEN error.line[1] - 1 ELSE 0
        column == IF error.column # Null THEN error.column[1] - 1 ELSE 0
        endColumn == IF error.endColumn # Null THEN error.endColumn[1] - 1 ELSE column + 1 IN
    Range(line, column, line, endColumn)

\* the diagnostic of an error of the engine (diagnostics.js:172-199)
ErrorDiagnostic(error) ==
    Diagnostic(RangeOf(error), error.message,
               GetSeverity(IF error.type # Null THEN error.type ELSE error.severity),
               "selfies", error.code, Null, <<>>)

\* the diagnostic of a warning of the engine (diagnostics.js:204-223)
WarningDiagnosticByTable(warning) ==
    Diagnostic(RangeOf(warning), warning.message,
               GetSeverity(IF warning.type # Null THEN warning.type ELSE warning.severity),
               "selfies", Null, Null, <<>>)
WarningDiagnostic(warning) ==
    Diagnostic(RangeOf(warning), warning.message, "Warning", "selfies", Null, Null, <<>>)

\* the diagnostics of a selfies document whose parse gave the result
\* (diagnostics.js:166-234)
SelfiesDiagnosticsSilent(result) ==
    IF result.threw # Null THEN <<>>
    ELSE [i \in 1..Len(result.errors) |-> ErrorDiagnostic(result.errors[i])]
         \o [i \in 1..Len(result.warnings) |-> WarningDiagnostic(result.warnings[i])]
SelfiesDiagnostics(result) ==
    IF result.threw # Null
        THEN <<Diagnostic(Range(0, 0, 0, 1),
                          "Failed to parse SELFIES file: " \o result.threw[1],
                          "Error", "selfies", Null, Null, <<>>)>>
        ELSE [i \in 1..Len(result.errors) |-> ErrorDiagnostic(result.errors[i])]
             \o [i \in 1..Len(result.warnings) |-> WarningDiagnostic(result.warnings[i])]

\* loadWithImports(text, uri.fsPath): the engine gives its first result for the
\* first of the texts and its other result for any other text
FirstSource == <<"[methyl] = [C]", "[ethanol] = [methyl][C][O]">>
EngineResult(results, lines) == IF lines = FirstSource THEN results.first ELSE results.other

\* updateDiagnostics of the provider of diagnostics.js: the collection after it
UpdateDiagnosticsKeepingOld(collection, document, lines, results) ==
    IF ~IsSupportedFile(document) THEN collection
    ELSE IF EndsWithSmilesJs(document)
        THEN [collection EXCEPT ![document] = @ \o ValidateJavaScriptImports(lines)]
    ELSE [collection EXCEPT ![document] = @ \o SelfiesDiagnostics(EngineResult(results, lines))]
UpdateDiagnostics(collection, document, lines, results) ==
    IF ~IsSupportedFile(document) THEN collection
    ELSE IF EndsWithSmilesJs(document)
        THEN [collection EXCEPT ![document] = ValidateJavaScriptImports(lines)]
    ELSE [collection EXCEPT ![document] = SelfiesDiagnostics(EngineResult(results, lines))]

\* the listener of onDidCloseTextDocument of either provider: the collection
\* after diagnosticCollection.delete(document.uri)
DeleteDiagnosticsNot(collection, document) == collection
DeleteDiagnostics(collection, document) == [collection EXCEPT ![document] = <<>>]

\* the documents of the workspace the diagnostics are followed for, and the
\* collections of the two providers before anything is published
DiagDocs == {"basic.selfies", "m1.smiles.js", "notes.txt"}
NoDiagnostics == [name \in {"selfies", "smiles-roundtrip"} |-> [d \in DiagDocs |-> <<>>]]
(***************************************************************************)
(* The round-trip diagnostics of a document (the round-trip provider)      *)
(***************************************************************************)

\* looksLikeSMILES: a character of /[CNOPSFClBrI[\]()=@#\\/+-]/, and a digit or
\* one of = and #
LooksLikeSMILES(line) ==
    LET Has(set) == \E i \in 1..Len(line) : SubSeq(line, i, i) \in set IN
    /\ Has({"C", "N", "O", "P", "S", "F", "l", "B", "r", "I", "[", "]",
            "(", ")", "=", "@", "#", "\\", "/", "+", "-"})
    /\ (Has(Digits) \/ Has({"=", "#"}))

\* The matches of /(['"])(.*?)\1/g from the index from on: a match starts at the
\* first quote that has the same quote after it and ends at the nearest one; the
\* next match is looked for after it.  Each is given as extractSMILESFromLine
\* pushes it, when its content looks like SMILES.
RECURSIVE StringLiterals(_, _)
StringLiterals(line, from) ==
    LET Same(p, e) == Substr(line, e, 1) = Substr(line, p, 1)
        Closes(p) == {e \in (p + 1)..(Len(line) - 1) : Same(p, e)}
        opens == {p \in from..(Len(line) - 1) :
                     Substr(line, p, 1) \in Quotes /\ Closes(p) # {}}
        index == CHOOSE p \in opens : \A p2 \in opens : p <= p2
        close == CHOOSE e \in Closes(index) : \A e2 \in Closes(index) : e <= e2
        potentialSMILES == SubSeq(line, index + 2, close) IN
    IF opens = {} THEN <<>>
    ELSE (IF LooksLikeSMILES(potentialSMILES)
              THEN <<[smiles |-> potentialSMILES, start |-> index + 1,
                      end |-> index + (close - index + 1) - 1]>>
              ELSE <<>>)
         \o StringLiterals(line, close + 1)

\* The matches of /smiles\s*:\s*(['"])(.*?)\1/g from the index from on, each as
\* extractSMILESFromLine pushes it.
RECURSIVE SmilesFields(_, _)
SmilesFields(line, from) ==
    LET QuoteOf(p) == SkipWhite(line, SkipWhite(line, p + 6) + 1)
        Closes(p) == {e \in (QuoteOf(p) + 1)..(Len(line) - 1) :
                         Substr(line, e, 1)
                             = Substr(line, QuoteOf(p), 1)}
        fits == {p \in from..(Len(line) - 1) :
                    /\ Substr(line, p, 6) = "smiles"
                    /\ Substr(line, SkipWhite(line, p + 6), 1) = ":"
                    /\ Substr(line, QuoteOf(p), 1) \in Quotes
                    /\ Closes(p) # {}}
        index == CHOOSE p \in fits : \A p2 \in fits : p <= p2
        close == CHOOSE e \in Closes(index) : \A e2 \in Closes(index) : e <= e2
        smiles == SubSeq(line, QuoteOf(index) + 2, close)
        start == index + (QuoteOf(index) - index) + 1 IN
    IF fits = {} THEN <<>>
    ELSE <<[smiles |-> smiles, start |-> start, end |-> start + Len(smiles)]>>
         \o SmilesFields(line, close + 1)

\* extractSMILESFromLine
ExtractSMILESFromLine(line, lineNumber) ==
    LET smilesList == StringLiterals(line, 0) \o SmilesFields(line, 0) IN
    [i \in 1..Len(smilesList) |->
        [smiles |-> smilesList[i].smiles, start |-> smilesList[i].start,
         end |-> smilesList[i].end, line |-> lineNumber]]

\* What the library writes for a string it has parsed: its canonical form, or
\* Null when the string does not parse.  The strings of the model: a Kekule ring
\* and its aromatic form, chains the library writes as they are, a string whose
\* form settles only at the third writing, and one that does not parse.
Encode(smiles) ==
    IF smiles = "C1=CC=CC=C1" THEN Some("c1ccccc1")
    ELSE IF smiles = "C(C)(C)O" THEN Some("CC(C)O")
    ELSE IF smiles = "C1=C2" THEN Some("C=1C2")
    ELSE IF smiles = "C=1C2" THEN Some("C1=C2")
    ELSE IF smiles = "C1=C(" THEN Null
    ELSE Some(smiles)

\* validateRoundTrip of smiles-js: the string is parsed and written, and what
\* was written is parsed and written again
ValidateRoundTripLenient(smiles) ==
    LET first == Encode(smiles)
        second == Encode(first[1]) IN
    IF first = Null \/ second = Null
        THEN [threw |-> TRUE, perfect |-> FALSE, stabilizes |-> FALSE, firstRoundTrip |-> ""]
        ELSE [threw |-> FALSE, perfect |-> first[1] = smiles,
              stabilizes |-> TRUE, firstRoundTrip |-> first[1]]
ValidateRoundTrip(smiles) ==
    LET first == Encode(smiles)
        second == Encode(first[1]) IN
    IF first = Null \/ second = Null
        THEN [threw |-> TRUE, perfect |-> FALSE, stabilizes |-> FALSE, firstRoundTrip |-> ""]
        ELSE [threw |-> FALSE, perfect |-> first[1] = smiles,
              stabilizes |-> second[1] = first[1], firstRoundTrip |-> first[1]]

\* the diagnostics createRoundTripDiagnostics pushes for an extracted string
\* (part_002:97-149)
RoundTripDiagnosticAlwaysError(smilesInfo) ==
    LET result == ValidateRoundTrip(smilesInfo.smiles)
        range == Range(smilesInfo.line, smilesInfo.start, smilesInfo.line, smilesInfo.end) IN
    IF result.threw \/ result.perfect THEN <<>>
    ELSE <<Diagnostic(
             range,
             "SMILES round-trip: Unstable after 2 parses. Please file a bug report.",
             "Error", "smiles-js", Some("smiles-unstable"), Null, <<>>)>>
RoundTripDiagnostic(smilesInfo) ==
    LET result == ValidateRoundTrip(smilesInfo.smiles)
        range == Range(smilesInfo.line, smilesInfo.start, smilesInfo.line, smilesInfo.end) IN
    IF result.threw \/ result.perfect THEN <<>>
    ELSE IF result.stabilizes
        THEN <<Diagnostic(
                 range,
                 "SMILES round-trip: Stabilizes to \"" \o result.firstRoundTrip \o "\" ("
                     \o ToString(Len(smilesInfo.smiles) - Len(result.firstRoundTrip))
                     \o " char difference)",
                 "Warning", "smiles-js", Some("smiles-stabilizes"),
                 Some("Use normalized form: " \o result.firstRoundTrip),
                 <<"Unnecessary">>)>>
        ELSE <<Diagnostic(
                 range,
                 "SMILES round-trip: Unstable after 2 parses. Please file a bug report.",
                 "Error", "smiles-js", Some("smiles-unstable"), Null, <<>>)>>

\* createRoundTripDiagnostics with one try around the loop over the lines: a
\* string that does not parse ends the check of the document
CreateRoundTripDiagnosticsAborting(document, lines) ==
    IF ~EndsWithSmilesJs(document) /\ LanguageId(document) # "selfies" THEN <<>>
    ELSE LET smilesList == Concat([n \in 1..Len(lines) |->
                                      ExtractSMILESFromLine(lines[n], n - 1)])
             thrown == {i \in 1..Len(smilesList) :
                           ValidateRoundTrip(smilesList[i].smiles).threw}
             last == IF thrown = {} THEN Len(smilesList)
                     ELSE (CHOOSE i \in thrown : \A j \in thrown : i <= j) - 1 IN
         Concat([i \in 1..last |-> RoundTripDiagnostic(smilesList[i])])
\* createRoundTripDiagnostics
CreateRoundTripDiagnostics(document, lines) ==
    IF ~EndsWithSmilesJs(document) /\ LanguageId(document) # "selfies" THEN <<>>
    ELSE Concat([n \in 1..Len(lines) |->
                    LET smilesList == ExtractSMILESFromLine(lines[n], n - 1) IN
                    Concat([i \in 1..Len(smilesList) |-> RoundTripDiagnostic(smilesList[i])])])

\* updateDiagnostics of the round-trip provider: the collection after it
UpdateRoundTrip(collection, document, lines) ==
    [collection EXCEPT ![document] = CreateRoundTripDiagnostics(document, lines)]

\* provideCodeActions: the quick fixes of the diagnostics of the context;
\* /Stabilizes to "([^"]+)"/ takes the characters after the first marker that
\* has a character other than a quote after it, up to the next quote
NormalizedWithQuote(message) ==
    LET marker == "Stabilizes to \""
        index == IndexOf(message, marker, 0)
        end == IndexOf(message, "\"", index + Len(marker)) IN
    IF index < 0 \/ end <= index + Len(marker) THEN Null
    ELSE Some(SubSeq(message, index + Len(marker) + 1, end + 1))
Normalized(message) ==
    LET marker == "Stabilizes to \""
        End(p) == IndexOf(message, "\"", p + Len(marker))
        fits == {p \in 0..Len(message) :
                    /\ Substr(message, p, Len(marker)) = marker
                    /\ End(p) > p + Len(marker)}
        index == CHOOSE p \in fits : \A p2 \in fits : p <= p2 IN
    IF fits = {} THEN Null
    ELSE Some(SubSeq(message, index + Len(marker) + 1, End(index)))
ProvideCodeActions(document, diagnostics) ==
    Concat([i \in 1..Len(diagnostics) |->
               LET diagnostic == diagnostics[i] IN
               IF /\ diagnostic.source = "smiles-js"
                  /\ diagnostic.code = Some("smiles-stabilizes")
                  /\ Normalized(diagnostic.message) # Null
                   THEN <<[title |-> "Replace with normalized SMILES: "
                                        \o Normalized(diagnostic.message)[1],
                           document |-> document, range |-> diagnostic.range,
                           newText |-> Normalized(diagnostic.message)[1]]>>
                   ELSE <<>>])
(***************************************************************************)
(* The events of the editor and the steps of the suspended calls           *)
(***************************************************************************)

\* bound of the model: calls of _updateLineInfo that suspend in one behaviour
MaxResolves == 2

\* An event and what its handler did: the document and the line of the event,
\* whether they are the document and the line the tracker had before it, the
\* suspended call the step continued (0 for an event of the editor), and the
\* handler's calls of _updateLineInfo and loadWithImports and what it fired.
EventOf(kind, document, line, resolve, t) ==
    [kind |-> kind, document |-> document, line |-> line,
     sameDocument |-> document = currentDocument, sameLine |-> line = currentLine,
     resolve |-> resolve,
     updates |-> t.updates, parsed |-> t.parsed, fired |-> t.fired,
     started |-> t.started]

\* the tracker and the host as the handler of an event finds them
Tracker ==
    TrackerOf(currentLine, currentDocument, parseResult, esmModules,
              smilesModuleCache, lastReturn, resolves, seq)

SetTracker(t) ==
    /\ t.seq <= MaxResolves
    /\ currentLine' = t.currentLine
    /\ currentDocument' = t.currentDocument
    /\ parseResult' = t.parseResult
    /\ esmModules' = t.esmModules
    /\ smilesModuleCache' = t.smilesModuleCache
    /\ lastReturn' = t.lastReturn
    /\ resolves' = t.resolves
    /\ seq' = t.seq
    /\ UNCHANGED <<diagnosticCollection, engine>>

\* an editor that applies an edit to whatever version the document has
MarkStaleNever(suspended, document) == suspended
\* an edit of a document makes the edits asked for before it stale
MarkStale(suspended, document) ==
    { IF r.pc = "edit" /\ r.edit[1].document = document
          THEN [r EXCEPT !.stale = TRUE] ELSE r : r \in suspended }

\* the user makes another editor, or none, the active one
ChangeActiveTextEditor ==
    /\ \E editor \in DOMAIN text \cup {NoDoc} :
         /\ activeTextEditor' = editor
         /\ \E line \in (IF editor = NoDoc THEN {0} ELSE LinesOf(text, editor)) :
            \E t \in {EditorChangeListener(
                          Tracker, EnvOf(text, editor, files, now, FALSE), editor, line)} :
              /\ SetTracker(t)
              /\ lastEvent' = EventOf("editor", editor, line, 0, t)
    /\ UNCHANGED <<text, files, now, loads>>

\* The cursor of an editor moves or its selection changes.  The file of the
\* tracked document can be away when the handler looks for it: the model lets a
\* file be away at a cursor event and at the steps of a suspended call, and has
\* it there at the other events.
ChangeTextEditorSelection ==
    /\ \E editor \in DOMAIN text :
         \E line \in LinesOf(text, editor) :
         \E away \in (IF currentDocument \in Paths THEN BOOLEAN ELSE {FALSE}) :
         \E t \in {HandleSelectionChange(
                       Tracker, EnvOf(text, activeTextEditor, files, now, away),
                       editor, line)} :
           /\ SetTracker(t)
           /\ lastEvent' = EventOf("selection", editor, line, 0, t)
    /\ UNCHANGED <<text, activeTextEditor, files, now, loads>>

\* the user changes the text of a document to another of the texts of its kind
ChangeTextDocument ==
    /\ \E document \in DOMAIN text :
         \E newText \in (IF document \in DslDocs THEN DslTexts
                          ELSE IF document \in Paths THEN {TextFragments, TextNumbers}
                          ELSE PlainTexts) \ {text[document]} :
           /\ text' = [text EXCEPT ![document] = newText]
           /\ \E t \in {DocumentChangeListener(
                            [Tracker EXCEPT !.resolves = MarkStale(resolves, document)],
                            EnvOf(text', activeTextEditor, files, now, FALSE),
                            document)} :
                /\ SetTracker(t)
                /\ lastEvent' = EventOf("change", document, currentLine, 0, t)
    /\ UNCHANGED <<activeTextEditor, files, now, loads>>

\* the command selfies.showMolecule: with a supported document in the active
\* editor it reveals the panel and calls getCurrentLineInfo (part_003:41-64)
ShowMolecule ==
    /\ activeTextEditor # NoDoc
    /\ IsSupportedFile(activeTextEditor)
    /\ \E t \in {GetCurrentLineInfo(
                     Tracker, EnvOf(text, activeTextEditor, files, now, FALSE))} :
         /\ SetTracker(t)
         /\ lastEvent' = EventOf("command", activeTextEditor, currentLine, 0, t)
    /\ UNCHANGED <<text, activeTextEditor, files, now, loads>>

\* a step of the host that runs no code of the tracker
HostStep ==
    /\ lastEvent' =
           [kind |-> "host", document |-> NoDoc, line |-> 0,
            sameDocument |-> FALSE, sameLine |-> FALSE, resolve |-> 0,
            updates |-> 0, parsed |-> 0, fired |-> <<>>, started |-> <<>>]
    /\ UNCHANGED <<text, activeTextEditor, currentLine, currentDocument, parseResult,
                   resolves, seq, diagnosticCollection, engine>>

\* The edit a suspended call asked for settles: the editor applies it, unless the
\* document has changed since or the editor refuses it; the listener of
\* onDidChangeTextDocument runs for the change; the call then asks for the save
\* of the tracked document (lineTracker.js:216-219).
EditSettles ==
    \E r \in resolves :
    /\ r.pc = "edit"
    /\ \E applied \in (IF r.stale THEN {FALSE} ELSE BOOLEAN) :
       \E away \in (IF applied THEN BOOLEAN ELSE {FALSE}) :
       \E newText \in {IF applied
                          THEN [text EXCEPT ![r.edit[1].document] =
                                                ApplyInsert(@, r.edit[1])]
                          ELSE text} :
       \E t1 \in {IF applied
                     THEN DocumentChangeListener(
                              [Tracker EXCEPT !.resolves =
                                   MarkStale(resolves \ {r}, r.edit[1].document)],
                              EnvOf(newText, activeTextEditor, files, now, away),
                              r.edit[1].document)
                     ELSE [Tracker EXCEPT !.resolves = resolves \ {r}]} :
       \E t2 \in {Suspend(t1, [r EXCEPT !.pc = "save", !.edit = Null, !.stale = FALSE,
                                        !.saving = t1.currentDocument])} :
         /\ text' = newText
         /\ SetTracker(t2)
         /\ lastEvent' = EventOf("edit", r.document, r.line, r.id, t2)
    /\ UNCHANGED <<activeTextEditor, files, now, loads>>

\* The save a suspended call asked for settles: the document is written to its
\* file when it has changes; the call then calls _loadSmilesModule for the
\* tracked document (lineTracker.js:219-226).
SaveSettles ==
    \E r \in resolves :
    /\ r.pc = "save"
    /\ \E dirty \in {text[r.saving] # files[r.saving].lines} :
       /\ dirty => files[r.saving].mtimeMs < MaxMtime
       /\ files' = IF dirty THEN WriteFile(files, r.saving, text[r.saving]) ELSE files
    /\ \E away \in BOOLEAN :
       \E t1 \in {LoadSmilesJs([Tracker EXCEPT !.resolves = resolves \ {r}],
                               EnvOf(text, activeTextEditor, files', now, away),
                               [r EXCEPT !.saving = NoDoc])} :
         /\ SetTracker(t1)
         /\ lastEvent' = EventOf("save", r.document, r.line, r.id, t1)
    /\ UNCHANGED <<text, activeTextEditor, now, loads>>

\* The import a suspended call waits for has settled: _loadSmilesModule returns
\* and the call fires its notification (lineTracker.js:133-150, 228-270).
LoadSettles ==
    \E r \in resolves :
    /\ r.pc = "load"
    /\ esmModules[r.load[1].url].st \in {"evaluated", "errored"}
    /\ \E e \in {LoadEnd(smilesModuleCache, esmModules, r.load[1])} :
       \E t1 \in {FireLoaded([Tracker EXCEPT !.resolves = resolves \ {r},
                                             !.smilesModuleCache = e.cache,
                                             !.lastReturn = e.return],
                             r, [module |-> e.module, error |-> e.error])} :
         /\ SetTracker(t1)
         /\ lastEvent' = EventOf("load", r.document, r.line, r.id, t1)
    /\ UNCHANGED <<text, activeTextEditor, files, now, loads>>

(***************************************************************************)
(* The tracker among selfies and other documents                           *)
(***************************************************************************)

\* the host's module map before any import
NoModules ==
    [u \in Urls |-> [st |-> "absent", captured |-> 0, source |-> <<>>, failure |-> Null]]

\* the files as the extension finds them
InitialLines(filePath) == IF filePath = "m1.smiles.js" THEN TextFragments ELSE TextNumbers
CacheInit ==
    /\ files = [p \in Paths |-> [mtimeMs |-> 0, lines |-> InitialLines(p)]]
    /\ now = 0
    /\ loads = EmptyBag
    /\ diagnosticCollection = NoDiagnostics
    /\ engine = <<>>

\* the extension starts: the constructor runs with the editor that is active
Activate ==
    \E editor \in DOMAIN text \cup {NoDoc} :
    /\ activeTextEditor = editor
    /\ \E line \in (IF editor = NoDoc THEN {0} ELSE LinesOf(text, editor)) :
       \E t \in {Constructor(EnvOf(text, editor, files, now, FALSE), NoModules,
                             editor, line)} :
         /\ esmModules = t.esmModules
         /\ currentLine = t.currentLine
         /\ currentDocument = t.currentDocument
         /\ parseResult = t.parseResult
         /\ smilesModuleCache = t.smilesModuleCache
         /\ lastReturn = t.lastReturn
         /\ resolves = t.resolves
         /\ seq = t.seq
         /\ lastEvent = [kind |-> "constructor", document |-> editor, line |-> line,
                         sameDocument |-> FALSE, sameLine |-> FALSE, resolve |-> 0,
                         updates |-> t.updates, parsed |-> t.parsed,
                         fired |-> t.fired, started |-> t.started]

Init ==
    /\ CacheInit
    /\ text = [d \in DslDocs \cup PlainDocs |->
                 IF d = "basic.selfies" THEN TextBasic
                 ELSE IF d = "other.selfies" THEN TextStages
                 ELSE <<<<"txt">>>>]
    /\ Activate

Next ==
    \/ ChangeActiveTextEditor
    \/ ChangeTextEditorSelection
    \/ ChangeTextDocument
    \/ ShowMolecule

Spec == Init /\ [][Next]_vars

(***************************************************************************)
(* The tracker among smiles-js documents                                   *)
(***************************************************************************)

InitBuild ==
    /\ CacheInit
    /\ text = [d \in {"m1.smiles.js"} |-> InitialLines(d)]
    /\ Activate

NextBuild ==
    \/ ChangeActiveTextEditor
    \/ ChangeTextEditorSelection
    \/ ChangeTextDocument
    \/ ShowMolecule
    \/ EditSettles
    \/ SaveSettles
    \/ LoadSettles
    \/ \E url \in Urls : ImportEvaluate(url) /\ HostStep
    \/ Tick /\ HostStep

SpecBuild == InitBuild /\ [][NextBuild]_vars

(***************************************************************************)
(* The module cache under concurrent loads                                 *)
(***************************************************************************)

InitCache ==
    /\ CacheInit
    /\ esmModules = NoModules
    /\ smilesModuleCache = {}
    /\ lastReturn = NoReturn
    /\ text = [d \in Paths |-> InitialLines(d)]
    /\ activeTextEditor = NoDoc
    /\ currentLine = NoLine
    /\ currentDocument = NoDoc
    /\ parseResult = Null
    /\ resolves = {}
    /\ seq = 0
    /\ lastEvent = [kind |-> "constructor", document |-> NoDoc, line |-> 0,
                    sameDocument |-> FALSE, sameLine |-> FALSE, resolve |-> 0,
                    updates |-> 0, parsed |-> 0, fired |-> <<>>, started |-> <<>>]

NextCache ==
    \/ \E filePath \in Paths : LoadThrows(filePath) /\ UNCHANGED trackerVars
    \/ \E filePath \in Paths : LoadHit(filePath) /\ UNCHANGED trackerVars
    \/ \E filePath \in Paths : LoadMiss(filePath) /\ UNCHANGED trackerVars
    \/ \E url \in Urls : ImportEvaluate(url) /\ UNCHANGED trackerVars
    \/ \E l \in BagToSet(loads) : LoadResume(l) /\ UNCHANGED trackerVars
    \/ \E filePath \in Paths : FileWrite(filePath) /\ UNCHANGED trackerVars
    \/ Tick /\ UNCHANGED trackerVars

SpecCache == InitCache /\ [][NextCache]_vars

(***************************************************************************)
(* The two diagnostics providers among the documents of the workspace      *)
(***************************************************************************)

\* the texts a document can have: a selfies document (the second text with a
\* SMILES string in a comment), a smiles-js document, any other document
SourcesOf(document) ==
    IF document = "basic.selfies"
        THEN { FirstSource,
               <<"# smiles: 'C1=CC=CC=C1'",
                 "[benzene] = [C][=C][C][=C][C][=C][Ring1][=Branch1]">> }
    ELSE IF document = "m1.smiles.js"
        THEN { <<"import { Fragment } from '../src/fragment.js';",
                 "const ring = Ring('c', 6);",
                 "export const benzene = Fragment('C1=CC=CC=C1');">>,
               <<"import { Ring } from 'smiles-js'; x.attachAt(1);",
                 "const a = { smiles: \"C1=CC=CC=C1\" };",
                 "const b = Fragment('C1=C(') + Fragment('C=O') + Fragment(\"C1=C2\");">>,
               <<"const ok = Fragment('c1ccccc1');",
                 "const p = { smiles: 'CCO' };",
                 "y.attachAt(2); Ring({ atoms: 'c', size: 6 });">> }
    ELSE {<<"C1=CC=CC=C1 is 'C1=CC=CC=C1'">>}

\* What loadWithImports can do with a text: throw, or give errors and warnings.
\* Each field of an error or a warning can be missing; lines and columns are
\* counted from 1; the category is in type or in severity.  The results: a throw;
\* nothing to report; errors with and without a line, a column and an end
\* column; errors of every category of the table of getSeverity and of one that
\* is not in it (the category in type, in severity, in both or in neither) with
\* warnings with and without an end column and a category; warnings only.
EngineThrows == [threw |-> Some("Cannot resolve import"), errors |-> <<>>, warnings |-> <<>>]
EngineResults ==
    LET EngineError(line, column, endColumn, type, severity, message, code) ==
            [line |-> line, column |-> column, endColumn |-> endColumn, type |-> type,
             severity |-> severity, message |-> message, code |-> code]
        PositionErrors ==
            [i \in 1..8 |->
                EngineError(IF (i - 1) % 2 = 1 THEN Some(3) ELSE Null,
                            IF ((i - 1) \div 2) % 2 = 1 THEN Some(2) ELSE Null,
                            IF ((i - 1) \div 4) % 2 = 1 THEN Some(4) ELSE Null,
                            Some("syntax"), Null, "Unexpected token", Some("E001"))]
        Categories == <<"error", "syntax", "undefined", "circular", "redefinition",
                        "warning", "chemistry", "info", "hint", "note">>
        CategoryErrors ==
            [i \in 1..Len(Categories) |->
                EngineError(Some(3), Some(1), Null, Some(Categories[i]), Null,
                            "Bad definition", Null)]
            \o <<EngineError(Some(3), Some(1), Null, Null, Null, "Bad definition", Null),
                  EngineError(Some(3), Some(1), Null, Null, Some("hint"), "Bad definition", Null),
                  EngineError(Some(3), Some(1), Null, Null, Some("warning"), "Bad definition", Null),
                  EngineError(Some(3), Some(1), Null, Some("info"), Some("hint"),
                              "Bad definition", Null)>>
        EngineWarnings ==
            <<EngineError(Some(2), Some(2), Null, Null, Null, "Unusual valence", Null),
              EngineError(Some(2), Some(2), Some(5), Some("chemistry"), Null,
                          "Unusual valence", Null),
              EngineError(Null, Null, Null, Some("info"), Null, "Unusual valence", Null),
              EngineError(Some(1), Some(1), Some(3), Null, Some("error"),
                          "Unusual valence", Null)>> IN
    { EngineThrows,
      [threw |-> Null, errors |-> <<>>, warnings |-> <<>>],
      [threw |-> Null, errors |-> PositionErrors, warnings |-> <<>>],
      [threw |-> Null, errors |-> CategoryErrors, warnings |-> EngineWarnings],
      [threw |-> Null, errors |-> <<>>, warnings |-> EngineWarnings] }

\* An event of the workspace is recorded with its kind, the document it is about,
\* whether the document has the content it had before the event, how many
\* diagnostics of the document a close took away, and the quick fix applied.

\* the listeners publishing the sets of the text the document had before
PublishOlder(document, lines) ==
    LET older == IF document \in DOMAIN text THEN text[document] ELSE lines IN
    diagnosticCollection' =
        [diagnosticCollection EXCEPT
            !["selfies"] = UpdateDiagnostics(@, document, older, engine),
            !["smiles-roundtrip"] = UpdateRoundTrip(@, document, older)]
\* the listeners of both providers writing to one collection: what the second
\* sets replaces what the first has set
PublishShared(document, lines) ==
    diagnosticCollection' =
        [diagnosticCollection EXCEPT
            !["selfies"] = UpdateRoundTrip(UpdateDiagnostics(@, document, lines, engine),
                                           document, lines),
            !["smiles-roundtrip"] = UpdateRoundTrip(@, document, lines)]
\* the listeners of both providers have run for a document with the lines
Publish(document, lines) ==
    diagnosticCollection' =
        [diagnosticCollection EXCEPT
            !["selfies"] = UpdateDiagnostics(@, document, lines, engine),
            !["smiles-roundtrip"] = UpdateRoundTrip(@, document, lines)]

\* a document is opened (diagnostics.js:245-247, part_002:176-178)
DidOpenTextDocument(document) ==
    /\ document \notin DOMAIN text
    /\ \E lines \in SourcesOf(document) :
         /\ text' = [d \in DOMAIN text \cup {document} |->
                        IF d = document THEN lines ELSE text[d]]
         /\ Publish(document, lines)
    /\ lastEvent' = [kind |-> "open", document |-> document, unchanged |-> FALSE,
                     cleared |-> 0, fixed |-> Null]
    /\ UNCHANGED <<files, now, esmModules, smilesModuleCache, loads, lastReturn,
                   activeTextEditor, currentLine, currentDocument, parseResult,
                   resolves, seq, engine>>

\* the editor reports a change of a document, with new content or with the
\* content it had (diagnostics.js:240-242, part_002:171-173)
DidChangeTextDocument(document) ==
    /\ document \in DOMAIN text
    /\ \E lines \in SourcesOf(document) \cup {text[document]} :
         /\ text' = [text EXCEPT ![document] = lines]
         /\ Publish(document, lines)
         /\ lastEvent' = [kind |-> "change", document |-> document,
                          unchanged |-> lines = text[document], cleared |-> 0, fixed |-> Null]
    /\ UNCHANGED <<files, now, esmModules, smilesModuleCache, loads, lastReturn,
                   activeTextEditor, currentLine, currentDocument, parseResult,
                   resolves, seq, engine>>

\* a document is closed (diagnostics.js:250-252, part_002:181-183)
DidCloseTextDocument(document) ==
    /\ document \in DOMAIN text
    /\ text' = [d \in DOMAIN text \ {document} |-> text[d]]
    /\ diagnosticCollection' =
           [name \in DOMAIN diagnosticCollection |->
               DeleteDiagnostics(diagnosticCollection[name], document)]
    /\ lastEvent' = [kind |-> "close", document |-> document, unchanged |-> FALSE,
                     cleared |-> Len(diagnosticCollection["selfies"][document])
                                 + Len(diagnosticCollection["smiles-roundtrip"][document]),
                     fixed |-> Null]
    /\ UNCHANGED <<files, now, esmModules, smilesModuleCache, loads, lastReturn,
                   activeTextEditor, currentLine, currentDocument, parseResult,
                   resolves, seq, engine>>

\* The user applies the quick fix of a round-trip diagnostic: the editor replaces
\* the range of the diagnostic by the normalized string (part_002:195-220), and
\* the listeners run for the change.
ApplyQuickFix(document) ==
    /\ document \in DOMAIN text
    /\ \E i \in 1..Len(diagnosticCollection["smiles-roundtrip"][document]) :
       \E fix \in {f[1] : f \in {ProvideCodeActions(
                       document, <<diagnosticCollection["smiles-roundtrip"][document][i]>>)}
                                 \ {<<>>}} :
         LET n == fix.range.start.line + 1
             line == text[document][n]
             lines == [text[document] EXCEPT ![n] =
                          SubSeq(line, 1, fix.range.start.character) \o fix.newText
                          \o SubSeq(line, fix.range.end.character + 1, Len(line))] IN
         /\ text' = [text EXCEPT ![document] = lines]
         /\ Publish(document, lines)
         /\ lastEvent' = [kind |-> "fix", document |-> document, unchanged |-> FALSE,
                          cleared |-> 0, fixed |-> Some(fix)]
    /\ UNCHANGED <<files, now, esmModules, smilesModuleCache, loads, lastReturn,
                   activeTextEditor, currentLine, currentDocument, parseResult,
                   resolves, seq, engine>>

\* The extension starts with some documents open: each provider publishes for
\* every open document (diagnostics.js:255, part_002:186).
InitDiag ==
    /\ files = [p \in Paths |-> [mtimeMs |-> 0, lines |-> InitialLines(p)]]
    /\ now = 0
    /\ loads = EmptyBag
    /\ esmModules = NoModules
    /\ smilesModuleCache = {}
    /\ lastReturn = NoReturn
    /\ activeTextEditor = NoDoc
    /\ currentLine = NoLine
    /\ currentDocument = NoDoc
    /\ parseResult = Null
    /\ resolves = {}
    /\ seq = 0
    /\ \E first \in EngineResults :
       \E other \in {EngineThrows, [threw |-> Null, errors |-> <<>>, warnings |-> <<>>]} :
         engine = [first |-> first, other |-> other]
    /\ \E open \in SUBSET DiagDocs :
       \E s \in SourcesOf("basic.selfies") :
       \E j \in SourcesOf("m1.smiles.js") :
       \E lines \in {[d \in open |-> IF d = "basic.selfies" THEN s
                                     ELSE IF d = "m1.smiles.js" THEN j
                                     ELSE <<"C1=CC=CC=C1 is 'C1=CC=CC=C1'">>]} :
         /\ text = lines
         /\ diagnosticCollection =
                [name \in DOMAIN NoDiagnostics |->
                    [d \in DiagDocs |->
                        IF d \notin open THEN <<>>
                        ELSE IF name = "selfies"
                            THEN UpdateDiagnostics(NoDiagnostics[name], d, lines[d], engine)[d]
                            ELSE UpdateRoundTrip(NoDiagnostics[name], d, lines[d])[d]]]
    /\ lastEvent = [kind |-> "activate", document |-> NoDoc, unchanged |-> FALSE,
                    cleared |-> 0, fixed |-> Null]

NextDiag ==
    \/ \E document \in DiagDocs : DidOpenTextDocument(document)
    \/ \E document \in DiagDocs : DidChangeTextDocument(document)
    \/ \E document \in DiagDocs : DidCloseTextDocument(document)
    \/ \E document \in DiagDocs : ApplyQuickFix(document)

SpecDiag == InitDiag /\ [][NextDiag]_vars

(***************************************************************************)
(* The command that refactors a molecule to constructor code               *)
(* (src/unnamed/part_004)                                                  *)
(*                                                                         *)
(* A document is a sequence of lines, each a string, as in the diagnostics;*)
(* lines is text.split('\n') and a generated code is one string that can   *)
(* hold line breaks.                                                       *)
(***************************************************************************)

\* String.prototype.trim, for spaces and line breaks
TrimString(s) ==
    LET White(i) == Substr(s, i, 1) \in {" ", "\n"}
        starts == {i \in 0..Len(s) : \A j \in 0..(i - 1) : White(j)}
        ends == {i \in 0..Len(s) : \A j \in i..(Len(s) - 1) : White(j)}
        start == CHOOSE i \in starts : \A j \in starts : j <= i
        end == CHOOSE i \in ends : \A j \in ends : i <= j IN
    IF start >= end THEN "" ELSE Substr(s, start, end - start)

\* findExportAtLine: the declaration of the line, or Null
FindExportAtLine(lines, lineNumber) ==
    LET line == IF lineNumber \in 0..(Len(lines) - 1) THEN lines[lineNumber + 1] ELSE ""
        Word(i) == Substr(line, i, 1) \in
                       {"a", "b", "c", "d", "e", "f", "g", "h", "i", "j", "k", "l", "m",
                        "n", "o", "p", "q", "r", "s", "t", "u", "v", "w", "x", "y", "z",
                        "A", "B", "C", "D", "E", "F", "G", "H", "I", "J", "K", "L", "M",
                        "N", "O", "P", "Q", "R", "S", "T", "U", "V", "W", "X", "Y", "Z",
                        "_"} \cup Digits
        \* the index after the \w+ that begins at i
        WordEnd(i) == CHOOSE k \in i..Len(line) :
                          /\ \A j \in i..(k - 1) : Word(j)
                          /\ ~Word(k)
        \* const\s+(\w+)\s*= matched at i: the name, or Null
        ConstAt(i) ==
            LET j == SkipWhite(line, i + 5)
                k == WordEnd(j) IN
            IF /\ Substr(line, i, 5) = "const"
               /\ j > i + 5
               /\ k > j
               /\ Substr(line, SkipWhite(line, k), 1) = "="
                THEN Some(Substr(line, j, k - j)) ELSE Null
        \* export\s+const\s+(\w+)\s*= matched at i: the name, or Null
        ExportAt(i) ==
            IF Substr(line, i, 6) = "export" /\ SkipWhite(line, i + 6) > i + 6
                THEN ConstAt(SkipWhite(line, i + 6)) ELSE Null
        exports == {i \in 0..Len(line) : ExportAt(i) # Null}
        leadingWhitespace == SkipWhite(line, 0) IN
    IF line = "" THEN Null
    ELSE IF exports # {}
        THEN Some([name |-> ExportAt(CHOOSE i \in exports : \A j \in exports : i <= j)[1],
                   needsExport |-> FALSE, constPosition |-> Null])
    ELSE IF ConstAt(leadingWhitespace) # Null
        THEN Some([name |-> ConstAt(leadingWhitespace)[1],
                   needsExport |-> TRUE, constPosition |-> Some(leadingWhitespace)])
    ELSE Null

\* extractUsedConstructors: the known constructors c with c( somewhere in the
\* code, in the order of the list
ExtractUsedConstructors(code) ==
    SelectSeq(<<"Ring", "Linear", "FusedRing", "Molecule">>,
              LAMBDA c : IndexOf(code, c \o "(", 0) >= 0)

\* findImportInsertPosition: the line after the last import of the first run
\* of imports, 0 when there is none
FindImportInsertPosition(lines) ==
    LET RECURSIVE Scan(_, _)
        Scan(i, lastImportLine) ==
            IF i >= Len(lines) THEN lastImportLine
            ELSE LET line == TrimString(lines[i + 1]) IN
                 IF Substr(line, 0, 7) = "import " THEN Scan(i + 1, i)
                 ELSE IF /\ line # ""
                         /\ Substr(line, 0, 2) # "//"
                         /\ Substr(line, 0, 2) # "/*"
                         /\ lastImportLine >= 0
                     THEN lastImportLine
                 ELSE Scan(i + 1, lastImportLine) IN
    Scan(0, -1) + 1

\* getExistingImports: the names between the braces of every
\* import\s*\{([^}]+)\}\s*from\s*['"]smiles-js['"] of the text, split at the
\* commas and trimmed
GetExistingImports(lines) ==
    LET RECURSIVE JoinLines(_)
        JoinLines(ls) == IF ls = <<>> THEN ""
                    ELSE IF Len(ls) = 1 THEN ls[1]
                    ELSE ls[1] \o "\n" \o JoinLines(Tail(ls))
        all == JoinLines(lines)
        RECURSIVE SkipS(_)
        SkipS(i) == IF Substr(all, i, 1) \in {" ", "\n"} THEN SkipS(i + 1) ELSE i
        \* the regular expression matched at i: the capture and the index after
        \* the match, or Null
        MatchAt(i) ==
            LET open == SkipS(i + 6)
                close == IndexOf(all, "}", open + 1)
                from == SkipS(close + 1)
                quote == SkipS(from + 4) IN
            IF /\ Substr(all, i, 6) = "import"
               /\ Substr(all, open, 1) = "{"
               /\ close > open + 1
               /\ Substr(all, from, 4) = "from"
               /\ Substr(all, quote, 1) \in Quotes
               /\ Substr(all, quote + 1, 9) = "smiles-js"
               /\ Substr(all, quote + 10, 1) \in Quotes
                THEN Some([imports |-> Substr(all, open + 1, close - open - 1),
                           lastIndex |-> quote + 11])
                ELSE Null
        RECURSIVE Split(_)
        Split(s) == IF IndexOf(s, ",", 0) < 0 THEN {TrimString(s)}
                    ELSE {TrimString(Substr(s, 0, IndexOf(s, ",", 0)))}
                         \cup Split(Substr(s, IndexOf(s, ",", 0) + 1,
                                           Len(s) - IndexOf(s, ",", 0) - 1))
        RECURSIVE Exec(_)
        Exec(lastIndex) ==
            LET matches == {i \in lastIndex..Len(all) : MatchAt(i) # Null} IN
            IF matches = {} THEN {}
            ELSE LET match == MatchAt(CHOOSE i \in matches : \A j \in matches : i <= j)[1] IN
                 Split(match.imports) \cup Exec(match.lastIndex) IN
    Exec(0)

\* generateImportStatement: the import of the needed constructors that are not
\* among the existing ones, or Null when none is missing
GenerateImportStatement(needed, existing) ==
    LET missing == SelectSeq(needed, LAMBDA c : c \notin existing)
        RECURSIVE JoinNames(_)
        JoinNames(cs) == IF Len(cs) = 1 THEN cs[1] ELSE cs[1] \o ", " \o JoinNames(Tail(cs)) IN
    IF missing = <<>> THEN Null
    ELSE Some("import { " \o JoinNames(missing) \o " } from 'smiles-js';\n")

\* editor.edit with the inserts of its callback, each at a position of the
\* document as it is before the edit: a position after the last line is the end
\* of the document, and of two inserts at one position the first comes first
Edit(lines, inserts) ==
    LET RECURSIVE JoinLines(_)
        JoinLines(ls) == IF Len(ls) = 1 THEN ls[1] ELSE ls[1] \o "\n" \o JoinLines(Tail(ls))
        all == JoinLines(lines)
        RECURSIVE LineOffset(_)
        LineOffset(n) == IF n = 0 THEN 0 ELSE LineOffset(n - 1) + Len(lines[n]) + 1
        Offset(insert) ==
            IF insert.line >= Len(lines) THEN Len(all)
            ELSE LineOffset(insert.line)
                     + (IF insert.character < Len(lines[insert.line + 1])
                            THEN insert.character ELSE Len(lines[insert.line + 1]))
        RECURSIVE Apply(_, _)
        Apply(s, rest) ==
            IF rest = {} THEN s
            ELSE LET i == CHOOSE i \in rest :
                              \A j \in rest : \/ Offset(inserts[j]) < Offset(inserts[i])
                                              \/ Offset(inserts[j]) = Offset(inserts[i]) /\ j <= i
                     at == Offset(inserts[i]) IN
                 Apply(Substr(s, 0, at) \o inserts[i].text \o Substr(s, at, Len(s) - at),
                       rest \ {i})
        RECURSIVE Split(_)
        Split(s) == IF IndexOf(s, "\n", 0) < 0 THEN <<s>>
                    ELSE <<Substr(s, 0, IndexOf(s, "\n", 0))>>
                         \o Split(Substr(s, IndexOf(s, "\n", 0) + 1,
                                         Len(s) - IndexOf(s, "\n", 0) - 1)) IN
    Split(Apply(all, 1..Len(inserts)))

\* refactorMolecule leaving the comment of the code behind when toCode throws
RefactorMoleculeSplicingOnFailure(editor, lines, lineNumber, env) ==
    LET Failed(after, saved, message) ==
            [lines |-> after, saved |-> saved, code |-> Null, importStatement |-> Null,
             edited |-> FALSE, threw |-> FALSE,
             messages |-> <<[type |-> "error", message |-> message]>>]
        exportInfo == FindExportAtLine(lines, lineNumber) IN
    IF editor = NoDoc THEN Failed(lines, Null, "No active editor")
    ELSE IF ~EndsWithSmilesJs(editor)
        THEN Failed(lines, Null, "This command only works in .smiles.js files")
    ELSE IF exportInfo = Null
        THEN Failed(lines, Null, "No const declaration found on the current line")
    ELSE LET exportName == exportInfo[1].name
             exported ==
                 IF exportInfo[1].needsExport /\ env.applied
                     THEN Edit(lines, <<[line |-> lineNumber,
                                         character |-> exportInfo[1].constPosition[1],
                                         text |-> "export "]>>)
                     ELSE lines IN
         IF env.fragment.kind = "none"
             THEN Failed(exported, Some(exported),
                         "Could not load export \"" \o exportName \o "\"")
         ELSE IF env.fragment.kind = "plain"
             THEN Failed(exported, Some(exported),
                         "Export \"" \o exportName \o "\" does not have a toCode() method")
         ELSE IF env.fragment.kind = "throws"
             THEN Failed(Edit(exported, <<[line |-> lineNumber + 1, character |-> 0,
                                           text |-> "\n// Refactored from " \o exportName
                                                        \o ":\n"]>>),
                         Some(exported),
                         "Failed to generate code: " \o env.fragment.message)
         ELSE LET code == env.fragment.code
                  importStatement ==
                      GenerateImportStatement(ExtractUsedConstructors(code),
                                              GetExistingImports(exported))
                  inserts ==
                      (IF importStatement # Null
                           THEN <<[line |-> FindImportInsertPosition(exported),
                                   character |-> 0, text |-> importStatement[1]]>>
                           ELSE <<>>)
                      \o <<[line |-> lineNumber + 1, character |-> 0,
                            text |-> "\n// Refactored from " \o exportName \o ":\n"
                                         \o code \o "\n"]>> IN
              [lines |-> IF env.inserted THEN Edit(exported, inserts) ELSE exported,
               saved |-> Some(exported), code |-> Some(code),
               importStatement |-> importStatement, edited |-> env.inserted,
               threw |-> FALSE,
               messages |-> <<[type |-> "information",
                               message |-> "Refactored \"" \o exportName
                                               \o "\" to constructor code"]>>]
\* refactorMolecule calling toCode without looking whether it is a function
RefactorMoleculeWithoutCheck(editor, lines, lineNumber, env) ==
    LET Failed(after, saved, message) ==
            [lines |-> after, saved |-> saved, code |-> Null, importStatement |-> Null,
             edited |-> FALSE, threw |-> FALSE,
             messages |-> <<[type |-> "error", message |-> message]>>]
        exportInfo == FindExportAtLine(lines, lineNumber) IN
    IF editor = NoDoc THEN Failed(lines, Null, "No active editor")
    ELSE IF ~EndsWithSmilesJs(editor)
        THEN Failed(lines, Null, "This command only works in .smiles.js files")
    ELSE IF exportInfo = Null
        THEN Failed(lines, Null, "No const declaration found on the current line")
    ELSE LET exportName == exportInfo[1].name
             exported ==
                 IF exportInfo[1].needsExport /\ env.applied
                     THEN Edit(lines, <<[line |-> lineNumber,
                                         character |-> exportInfo[1].constPosition[1],
                                         text |-> "export "]>>)
                     ELSE lines IN
         IF env.fragment.kind = "none"
             THEN Failed(exported, Some(exported),
                         "Could not load export \"" \o exportName \o "\"")
         ELSE IF env.fragment.kind = "plain"
             THEN [lines |-> exported, saved |-> Some(exported), code |-> Null,
                   importStatement |-> Null, edited |-> FALSE, threw |-> TRUE,
                   messages |-> <<>>]
         ELSE IF env.fragment.kind = "throws"
             THEN Failed(exported, Some(exported),
                         "Failed to generate code: " \o env.fragment.message)
         ELSE LET code == env.fragment.code
                  importStatement ==
                      GenerateImportStatement(ExtractUsedConstructors(code),
                                              GetExistingImports(exported))
                  inserts ==
                      (IF importStatement # Null
                           THEN <<[line |-> FindImportInsertPosition(exported),
                                   character |-> 0, text |-> importStatement[1]]>>
                           ELSE <<>>)
                      \o <<[line |-> lineNumber + 1, character |-> 0,
                            text |-> "\n// Refactored from " \o exportName \o ":\n"
                                         \o code \o "\n"]>> IN
              [lines |-> IF env.inserted THEN Edit(exported, inserts) ELSE exported,
               saved |-> Some(exported), code |-> Some(code),
               importStatement |-> importStatement, edited |-> env.inserted,
               threw |-> FALSE,
               messages |-> <<[type |-> "information",
                               message |-> "Refactored \"" \o exportName
                                               \o "\" to constructor code"]>>]

\* refactorMolecule, with what its awaits give: whether the edit that inserts
\* 'export ' is applied, the value of the export in the module loaded (none when
\* the load fails or the export is missing or falsy, a value without toCode, a
\* fragment whose toCode throws, a fragment whose toCode gives a code), and
\* whether the edit that inserts the code is applied.  The result: the lines of
\* the document, the lines saved, the code and the import statement computed,
\* whether the last edit was made, whether the call threw, and the messages
\* shown.
RefactorMolecule(editor, lines, lineNumber, env) ==
    LET Failed(after, saved, message) ==
            [lines |-> after, saved |-> saved, code |-> Null, importStatement |-> Null,
             edited |-> FALSE, threw |-> FALSE,
             messages |-> <<[type |-> "error", message |-> message]>>]
        exportInfo == FindExportAtLine(lines, lineNumber) IN
    IF editor = NoDoc THEN Failed(lines, Null, "No active editor")
    ELSE IF ~EndsWithSmilesJs(editor)
        THEN Failed(lines, Null, "This command only works in .smiles.js files")
    ELSE IF exportInfo = Null
        THEN Failed(lines, Null, "No const declaration found on the current line")
    ELSE LET exportName == exportInfo[1].name
             exported ==
                 IF exportInfo[1].needsExport /\ env.applied
                     THEN Edit(lines, <<[line |-> lineNumber,
                                         character |-> exportInfo[1].constPosition[1],
                                         text |-> "export "]>>)
                     ELSE lines IN
         IF env.fragment.kind = "none"
             THEN Failed(exported, Some(exported),
                         "Could not load export \"" \o exportName \o "\"")
         ELSE IF env.fragment.kind = "plain"
             THEN Failed(exported, Some(exported),
                         "Export \"" \o exportName \o "\" does not have a toCode() method")
         ELSE IF env.fragment.kind = "throws"
             THEN Failed(exported, Some(exported),
                         "Failed to generate code: " \o env.fragment.message)
         ELSE LET code == env.fragment.code
                  importStatement ==
                      GenerateImportStatement(ExtractUsedConstructors(code),
                                              GetExistingImports(exported))
                  inserts ==
                      (IF importStatement # Null
                           THEN <<[line |-> FindImportInsertPosition(exported),
                                   character |-> 0, text |-> importStatement[1]]>>
                           ELSE <<>>)
                      \o <<[line |-> lineNumber + 1, character |-> 0,
                            text |-> "\n// Refactored from " \o exportName \o ":\n"
                                         \o code \o "\n"]>> IN
              [lines |-> IF env.inserted THEN Edit(exported, inserts) ELSE exported,
               saved |-> Some(exported), code |-> Some(code),
               importStatement |-> importStatement, edited |-> env.inserted,
               threw |-> FALSE,
               messages |-> <<[type |-> "information",
                               message |-> "Refactored \"" \o exportName
                                               \o "\" to constructor code"]>>]

\* the lines of the longest document the command is run in
MaxLines == 3

\* The user runs the command with an editor active, or none, and the cursor on
\* a line: the document is edited and saved as refactorMolecule does it, and the
\* listeners of the diagnostics run when an edit changed the document.  The
\* codes are those toCode gives for a ring, for a chain in a molecule, for a
\* fused ring and for a fragment it leaves as it is.
ExecuteRefactorMolecule ==
    /\ \A p \in Paths : files[p].mtimeMs < MaxMtime
    /\ \E editor \in {NoDoc} \cup {d \in DOMAIN text : Len(text[d]) <= MaxLines} :
       \E lineNumber \in 0..(IF editor = NoDoc THEN 0 ELSE Len(text[editor]) - 1) :
       \E applied \in BOOLEAN, inserted \in BOOLEAN :
       \E fragment \in
              { [kind |-> "none"], [kind |-> "plain"],
                [kind |-> "throws", message |-> "Unsupported structure"] }
              \cup { [kind |-> "code", code |-> code] :
                     code \in { "export const ring1 = Ring({ atoms: 'c', size: 6 });",
                                "const chain1 = Linear(['C', 'C']);\nexport const molecule1 = Molecule([chain1]);",
                                "export const fused1 = FusedRing({ rings: rings1 });",
                                "export const fragment1 = Fragment('C');" } } :
       \E result \in {RefactorMolecule(editor, IF editor = NoDoc THEN <<>> ELSE text[editor],
                                       lineNumber,
                                       [applied |-> applied, fragment |-> fragment,
                                        inserted |-> inserted])} :
           /\ activeTextEditor' = editor
           /\ text' = IF editor = NoDoc THEN text ELSE [text EXCEPT ![editor] = result.lines]
           /\ files' = IF result.saved # Null /\ files[editor].lines # result.saved[1]
                           THEN WriteFile(files, editor, result.saved[1]) ELSE files
           /\ IF editor # NoDoc /\ result.lines # text[editor]
                  THEN Publish(editor, result.lines)
                  ELSE UNCHANGED diagnosticCollection
           /\ lastEvent' = [kind |-> "refactor", document |-> editor, line |-> lineNumber,
                            before |-> IF editor = NoDoc THEN <<>> ELSE text[editor],
                            result |-> result, unchanged |-> FALSE, cleared |-> 0,
                            fixed |-> Null]
           /\ UNCHANGED <<now, esmModules, smilesModuleCache, loads, lastReturn,
                          currentLine, currentDocument, parseResult, resolves, seq, engine>>

\* The extension starts with a smiles-js document and a selfies document open,
\* the files as the documents are, and the diagnostics of both published.  The
\* smiles-js document is one of the documents of the diagnostics or one whose
\* import statement takes two lines.
InitRefactor ==
    /\ now = 0
    /\ loads = EmptyBag
    /\ esmModules = NoModules
    /\ smilesModuleCache = {}
    /\ lastReturn = NoReturn
    /\ activeTextEditor = NoDoc
    /\ currentLine = NoLine
    /\ currentDocument = NoDoc
    /\ parseResult = Null
    /\ resolves = {}
    /\ seq = 0
    /\ engine = [first |-> [threw |-> Null, errors |-> <<>>, warnings |-> <<>>],
                 other |-> EngineThrows]
    /\ \E j \in SourcesOf("m1.smiles.js")
                 \cup {<<"import {",
                         "  Ring } from 'smiles-js';",
                         "const r = Fragment('c1ccccc1');">>} :
         /\ text = [d \in {"m1.smiles.js", "basic.selfies"} |->
                       IF d = "m1.smiles.js" THEN j ELSE FirstSource]
         /\ files = [p \in Paths |->
                        [mtimeMs |-> 0,
                         lines |-> IF p = "m1.smiles.js" THEN j ELSE InitialLines(p)]]
    /\ diagnosticCollection =
           [name \in DOMAIN NoDiagnostics |->
               [d \in DiagDocs |->
                   IF d \notin DOMAIN text THEN <<>>
                   ELSE IF name = "selfies"
                       THEN UpdateDiagnostics(NoDiagnostics[name], d, text[d], engine)[d]
                       ELSE UpdateRoundTrip(NoDiagnostics[name], d, text[d])[d]]]
    /\ lastEvent = [kind |-> "activate", document |-> NoDoc, unchanged |-> FALSE,
                    cleared |-> 0, fixed |-> Null]

NextRefactor ==
    \/ ExecuteRefactorMolecule
    \/ DidChangeTextDocument("m1.smiles.js")

SpecRefactor == InitRefactor /\ [][NextRefactor]_vars

(***************************************************************************)
(* The edits that insert 'export ' while other operations run              *)
(* (lineTracker.js:182-221, src/unnamed/part_004:104-185)                  *)
(*                                                                         *)
(* A resolve of the tracker and a run of the refactor command both read    *)
(* the line of the cursor and ask the editor for the insert of 'export '   *)
(* at their first await.  An operation is suspended there with the edit it *)
(* asked for; the host applies an edit only to the version of the document *)
(* it was asked for.  The saves and the loads between the edits leave the  *)
(* text as it is; they are followed in SpecBuild and in SpecRefactor.      *)
(***************************************************************************)

\* bound of the model: operations that begin in one behaviour
MaxOperations == 2

\* _updateLineInfo of the tracked document up to its first await
\* (lineTracker.js:183-218), on lines that are strings: the suspended
\* operations, with the call when it asks for the insert of 'export '.
\* _findConstAtLine is findExportAtLine, line for line.
UpdateLineInfoToEdit(suspended, id, document, line, editor, lines) ==
    LET lineText == IF line \in 0..(Len(lines) - 1) THEN TrimString(lines[line + 1]) ELSE ""
        constInfo == FindExportAtLine(lines, line) IN
    IF /\ document # NoDoc
       /\ line # NoLine
       /\ EndsWithSmilesJs(document)
       /\ lineText # ""
       /\ Substr(lineText, 0, 2) \notin {"//", "/*"}
       /\ constInfo # Null
       /\ constInfo[1].needsExport
       /\ editor = document
        THEN suspended \cup
                 {[id |-> id, kind |-> "resolve", document |-> document, line |-> line,
                   name |-> constInfo[1].name, needsExport |-> TRUE, text |-> <<>>,
                   pc |-> "edit", stale |-> FALSE,
                   edit |-> Some([document |-> document, line |-> line,
                                  character |-> constInfo[1].constPosition[1],
                                  text |-> "export "])]}
        ELSE suspended

\* The listener of onDidChangeTextDocument of the tracker after a change of a
\* document (lineTracker.js:27-32, 89-97): the operations suspended at an edit
\* of the document are for a version it no longer has, and the tracker
\* resolves the line of the cursor again when the document is the tracked one.
AfterChange(suspended, document, lines) ==
    /\ resolves' = IF document = currentDocument
                       THEN UpdateLineInfoToEdit(MarkStale(suspended, document), seq + 1,
                                                 currentDocument, currentLine,
                                                 activeTextEditor, lines)
                       ELSE MarkStale(suspended, document)
    /\ seq' = IF \E r \in resolves' : r.id = seq + 1 THEN seq + 1 ELSE seq
    /\ seq' <= MaxOperations

\* The user makes the editor of a smiles-js document, or none, the active one,
\* with the cursor on a line (lineTracker.js:42-55): the tracker takes the
\* document and the line and resolves it.
ActivateSmilesJsEditor ==
    /\ seq < MaxOperations
    /\ \E editor \in {d \in DOMAIN text : EndsWithSmilesJs(d)} \cup {NoDoc} :
       \E line \in (IF editor = NoDoc THEN {0} ELSE 0..(Len(text[editor]) - 1)) :
         /\ activeTextEditor' = editor
         /\ IF editor = NoDoc
                THEN UNCHANGED <<currentDocument, currentLine, resolves, seq>>
                ELSE /\ currentDocument' = editor
                     /\ currentLine' = line
                     /\ resolves' = UpdateLineInfoToEdit(resolves, seq + 1, editor, line,
                                                         editor, text[editor])
                     /\ seq' = IF resolves' # resolves THEN seq + 1 ELSE seq
         /\ lastEvent' = [kind |-> "editor", document |-> editor, line |-> line]
    /\ UNCHANGED <<text, files, now, esmModules, smilesModuleCache, loads, lastReturn,
                   parseResult, diagnosticCollection, engine>>

\* The user runs the refactor command on a declaration of the active smiles-js
\* document (part_004:104-137): the command reads the text and asks for the
\* insert of 'export ' when the line has none, and goes on to the save
\* otherwise.
RefactorBegins ==
    /\ seq < MaxOperations
    /\ activeTextEditor # NoDoc
    /\ EndsWithSmilesJs(activeTextEditor)
    /\ \E lineNumber \in 0..(Len(text[activeTextEditor]) - 1) :
       \E exportInfo \in {FindExportAtLine(text[activeTextEditor], lineNumber)} :
         /\ exportInfo # Null
         /\ resolves' = resolves \cup
                {[id |-> seq + 1, kind |-> "refactor", document |-> activeTextEditor,
                  line |-> lineNumber, name |-> exportInfo[1].name,
                  needsExport |-> exportInfo[1].needsExport,
                  text |-> IF exportInfo[1].needsExport THEN <<>>
                           ELSE text[activeTextEditor],
                  pc |-> IF exportInfo[1].needsExport THEN "edit" ELSE "splice",
                  stale |-> FALSE,
                  edit |-> IF exportInfo[1].needsExport
                               THEN Some([document |-> activeTextEditor,
                                          line |-> lineNumber,
                                          character |-> exportInfo[1].constPosition[1],
                                          text |-> "export "])
                               ELSE Null]}
         /\ seq' = seq + 1
         /\ lastEvent' = [kind |-> "command", document |-> activeTextEditor,
                          line |-> lineNumber]
    /\ UNCHANGED <<text, files, now, esmModules, smilesModuleCache, loads, lastReturn,
                   activeTextEditor, currentLine, currentDocument, parseResult,
                   diagnosticCollection, engine>>

\* The edit an operation asked for settles (lineTracker.js:216-218,
\* part_004:130-132): the editor applies it, unless the document has changed
\* since or the editor refuses it, and the tracker's listener runs for the
\* change.  The refactor command goes on to its save; the rest of a resolve
\* leaves the text as it is.
ExportSettles ==
    \E r \in resolves :
    /\ r.pc = "edit"
    /\ \E applied \in (IF r.stale THEN {FALSE} ELSE BOOLEAN) :
       \E lines \in {IF applied
                        THEN Edit(text[r.document],
                                  <<[line |-> r.edit[1].line,
                                     character |-> r.edit[1].character,
                                     text |-> r.edit[1].text]>>)
                        ELSE text[r.document]} :
       \E rest \in {(resolves \ {r})
                        \cup (IF r.kind = "refactor"
                                  THEN {[r EXCEPT !.pc = "splice", !.edit = Null,
                                                  !.stale = FALSE]}
                                  ELSE {})} :
         /\ text' = [text EXCEPT ![r.document] = lines]
         /\ IF applied
                THEN AfterChange(rest, r.document, lines)
                ELSE resolves' = rest /\ seq' = seq
         /\ lastEvent' = [kind |-> "export", document |-> r.document, line |-> r.line,
                          operation |-> r, applied |-> applied]
    /\ UNCHANGED <<files, now, esmModules, smilesModuleCache, loads, lastReturn,
                   activeTextEditor, currentLine, currentDocument, parseResult,
                   diagnosticCollection, engine>>

\* The refactor command after its save (part_004:133-185), its awaits taken
\* in one step: it reads the text again when it has asked for 'export ', loads
\* the module, and either shows an error (the export is missing, has no toCode,
\* or toCode throws) or asks for the edit that inserts the import and the code
\* of the declaration, which the editor applies or refuses.
RefactorSplices ==
    \E r \in resolves :
    /\ r.pc = "splice"
    /\ \E fragment \in {[kind |-> "none"],
                        [kind |-> "code",
                         code |-> "export const ring1 = Ring({ atoms: 'c', size: 6 });"]} :
       \E inserted \in (IF fragment.kind = "code" THEN BOOLEAN ELSE {FALSE}) :
       \E read \in {IF r.needsExport THEN text[r.document] ELSE r.text} :
       \E importStatement \in
              {IF fragment.kind = "code"
                   THEN GenerateImportStatement(ExtractUsedConstructors(fragment.code),
                                                GetExistingImports(read))
                   ELSE Null} :
       \E lines \in
              {IF inserted
                   THEN Edit(text[r.document],
                             (IF importStatement # Null
                                  THEN <<[line |-> FindImportInsertPosition(read),
                                          character |-> 0, text |-> importStatement[1]]>>
                                  ELSE <<>>)
                             \o <<[line |-> r.line + 1, character |-> 0,
                                   text |-> "\n// Refactored from " \o r.name \o ":\n"
                                                \o fragment.code \o "\n"]>>)
                   ELSE text[r.document]} :
         /\ text' = [text EXCEPT ![r.document] = lines]
         /\ IF inserted
                THEN AfterChange(resolves \ {r}, r.document, lines)
                ELSE resolves' = resolves \ {r} /\ seq' = seq
         /\ lastEvent' = [kind |-> "splice", document |-> r.document, line |-> r.line,
                          operation |-> r, applied |-> inserted]
    /\ UNCHANGED <<files, now, esmModules, smilesModuleCache, loads, lastReturn,
                   activeTextEditor, currentLine, currentDocument, parseResult,
                   diagnosticCollection, engine>>

\* the user changes the text of a smiles-js document, while operations can
\* still begin
TypeInSmilesJs ==
    /\ seq < MaxOperations
    /\ \E document \in {d \in DOMAIN text : EndsWithSmilesJs(d)} :
       \E lines \in SourcesOf(document) \ {text[document]} :
         /\ text' = [text EXCEPT ![document] = lines]
         /\ AfterChange(resolves, document, lines)
         /\ lastEvent' = [kind |-> "change", document |-> document, line |-> 0]
    /\ UNCHANGED <<files, now, esmModules, smilesModuleCache, loads, lastReturn,
                   activeTextEditor, currentLine, currentDocument, parseResult,
                   diagnosticCollection, engine>>

NextExport ==
    \/ ActivateSmilesJsEditor
    \/ RefactorBegins
    \/ ExportSettles
    \/ RefactorSplices
    \/ TypeInSmilesJs

SpecExport == InitRefactor /\ [][NextExport]_vars

(***************************************************************************)
(* Properties of the module cache, checked under SpecCache                 *)
(***************************************************************************)

\* C1: in every reachable state, after any interleaving of concurrent loads of
\* the same or of different files (hits, successful and failed loads), the
\* module cache holds at most one entry.
C1_AtMostOneEntry == Cardinality(smilesModuleCache) <= 1

\* a load of one file has installed its entry while a load of another file, begun
\* before, is still suspended
C1_Witness ==
    /\ lastReturn.kind = "loaded"
    /\ Cardinality(smilesModuleCache) = 1
    /\ \E l \in BagToSet(loads) : l.key[1] # lastReturn.path

\* C2: a load gives cached exports only for the file's modification time read at
\* the call, and after a file write the next load executes the file again: no
\* load returns exports read from the file as it was before the modification
\* time the load saw.
C2_NeverOlderExports ==
    lastReturn.kind \in {"hit", "loaded"} => lastReturn.age # "older"

\* C3: whenever a load fails at any step, the module cache is empty when the load
\* returns (and the failure reaches the caller).
C3_FailureLeavesCacheEmpty ==
    lastReturn.kind \in {"failed", "threw"} => lastReturn.cacheSize = 0

(***************************************************************************)
(* Properties of the tracker, checked under Spec                           *)
(***************************************************************************)

\* the parse cache holds nothing, or the parse of the text the document has now
FreshOrEmpty(parse, lines) ==
    \/ parse = Null
    \/ /\ ~ParseText(lines).threw
       /\ parse = Some([definitions |-> ParseText(lines).definitions])

\* C4: when the active editor switches to a supported document other than the
\* tracked one, the tracker empties the parse cache, takes the new document and
\* its cursor line and starts a resolve, also when the line index is the one it
\* had for the previous document.
C4_EditorSwitchForcesResolve ==
    [][ ( /\ lastEvent'.kind = "editor"
          /\ lastEvent'.document \in DslDocs \cup Paths
          /\ lastEvent'.document # currentDocument )
        => /\ currentDocument' = lastEvent'.document
           /\ currentLine' = lastEvent'.line
           /\ lastEvent'.updates = 1
           /\ FreshOrEmpty(parseResult', text'[lastEvent'.document])
           /\ lastEvent'.document \in DslDocs =>
                 /\ lastEvent'.parsed = 1
                 /\ Len(lastEvent'.fired) = 1 ]_vars

\* the editor switched from a tracked document to another supported document
\* whose cursor is on the same line index, and the line was resolved
C4_Witness ==
    /\ lastEvent.kind = "editor"
    /\ lastEvent.document \in DslDocs
    /\ ~lastEvent.sameDocument
    /\ lastEvent.sameLine
    /\ lastEvent.updates = 1
    /\ lastEvent.parsed = 1
    /\ parseResult # Null

\* C5: every text change of the tracked document empties the parse cache and
\* starts a resolve of the current line, whatever the change: the resolve parses
\* the new text.
C5_TextChangeReparses ==
    [][ ( /\ lastEvent'.kind = "change"
          /\ currentDocument # NoDoc
          /\ lastEvent'.document = currentDocument )
        => /\ currentDocument' = currentDocument
           /\ currentLine' = currentLine
           /\ lastEvent'.updates = 1
           /\ FreshOrEmpty(parseResult', text'[currentDocument])
           /\ (currentDocument \in DslDocs /\ currentLine < Len(text'[currentDocument]))
                 => lastEvent'.parsed = 1 ]_vars

\* the text of the tracked document changed while a parse was cached, and the
\* resolve that followed parsed the new text
C5_Witness ==
    /\ lastEvent.kind = "change"
    /\ lastEvent.document = currentDocument
    /\ lastEvent.updates = 1
    /\ lastEvent.parsed = 1
    /\ parseResult # Null
    /\ text[currentDocument] # TextBasic

\* C6: a cursor event in the tracked document on the current line starts no
\* resolve and fires nothing; one on another line sets the line index and starts
\* exactly one resolve.
C6_ResolveOnlyOnLineChange ==
    [][ ( /\ lastEvent'.kind = "selection"
          /\ currentDocument # NoDoc
          /\ lastEvent'.document = currentDocument )
        => IF lastEvent'.line = currentLine
             THEN /\ lastEvent'.updates = 0
                  /\ lastEvent'.fired = <<>>
                  /\ UNCHANGED <<currentLine, currentDocument, parseResult>>
             ELSE /\ currentLine' = lastEvent'.line
                  /\ currentDocument' = currentDocument
                  /\ lastEvent'.updates = 1 ]_vars

\* a cursor event of the tracked document arrived for the line the tracker was
\* on, after an earlier resolve, and nothing was fired
C6_Witness ==
    /\ lastEvent.kind = "selection"
    /\ lastEvent.sameDocument
    /\ lastEvent.sameLine
    /\ currentDocument \in DslDocs
    /\ lastEvent.updates = 0
    /\ lastEvent.fired = <<>>

\* C7: when a document that is not supported becomes active, or a cursor event
\* comes from one, the tracked document, the line index and the parse cache
\* stay as they are and nothing is fired.
C7_UnsupportedChangesNothing ==
    [][ ( /\ lastEvent'.kind \in {"editor", "selection"}
          /\ lastEvent'.document \in PlainDocs )
        => /\ UNCHANGED <<currentLine, currentDocument, parseResult>>
           /\ lastEvent'.updates = 0
           /\ lastEvent'.fired = <<>> ]_vars

\* a document that is not supported became active while the tracker was attached
\* to a supported one
C7_Witness ==
    /\ lastEvent.kind = "editor"
    /\ lastEvent.document \in PlainDocs
    /\ activeTextEditor \in PlainDocs
    /\ currentDocument \in DslDocs
    /\ parseResult # Null

\* the last event resolved a line that exists in a selfies document that parses
ResolvedParsedLine ==
    /\ lastEvent.updates = 1
    /\ currentDocument \in DslDocs
    /\ currentLine < Len(text[currentDocument])
    /\ ~ParseText(text[currentDocument]).threw

\* the names of the definitions the engine reports at the 1-based line n
NamesAtSourceLine(lines, n) ==
    LET definitions == ParseText(lines).definitions IN
    {definitions[i].name : i \in {j \in 1..Len(definitions) : definitions[j].line = n}}

IsBlankOrComment(line) == Trim(line) = <<>> \/ Head(Trim(line)) = "#"

\* C8: for a selfies document that parses, a resolve at the editor line L fires
\* the definition whose 1-based source line is L + 1, and fires null when there
\* is none or when the line is blank or a comment.
C8_SelectsSourceLinePlusOne ==
    ResolvedParsedLine =>
        LET lines == text[currentDocument]
            names == NamesAtSourceLine(lines, currentLine + 1) IN
        /\ Len(lastEvent.fired) = 1
        /\ IF names = {} \/ IsBlankOrComment(lines[currentLine + 1])
             THEN lastEvent.fired[1] = Null
             ELSE /\ lastEvent.fired[1] # Null
                  /\ lastEvent.fired[1][1].line = currentLine
                  /\ lastEvent.fired[1][1].name \in names

\* the cursor is on the editor line 5 of the basic document and the definition
\* of its source line 6 was fired
C8_Witness ==
    /\ ResolvedParsedLine
    /\ text[currentDocument] = TextBasic
    /\ currentLine = 5
    /\ lastEvent.fired # <<>>
    /\ lastEvent.fired[1] # Null
    /\ lastEvent.fired[1][1].name = "ethyl"

FiredName(name) ==
    /\ Len(lastEvent.fired) = 1
    /\ lastEvent.fired[1] # Null
    /\ lastEvent.fired[1][1].name = name

\* C9 as it was stated: with definitions at the 1-based lines {5,6,7,10,11}, a
\* cursor at the editor line 4 gives the definition of line 5 and a cursor at
\* the editor line 9 gives null.
C9_AsStated ==
    (ResolvedParsedLine /\ text[currentDocument] = TextBasic) =>
        /\ (currentLine = 4 => FiredName("methyl"))
        /\ (currentLine = 9 => lastEvent.fired = <<Null>>)

\* C9: with definitions at the 1-based lines {5,6,7,10,11}, a cursor at the
\* editor line 4 gives the definition of line 5, a cursor at the editor line 8
\* (the blank source line 9) gives null, and a cursor at the editor line 9 gives
\* the definition of the source line 10.
C9_BasicDocumentLines ==
    (ResolvedParsedLine /\ text[currentDocument] = TextBasic) =>
        /\ (currentLine = 4 => FiredName("methyl"))
        /\ (currentLine = 8 => lastEvent.fired = <<Null>>)
        /\ (currentLine = 9 => FiredName("hydroxyl"))

\* the cursor is on the editor line 9 of the basic document and a definition was
\* fired
C9_Witness ==
    /\ ResolvedParsedLine
    /\ text[currentDocument] = TextBasic
    /\ currentLine = 9
    /\ FiredName("hydroxyl")

\* the last event fired the object of a definition of the parsed document
FiredDefinition ==
    /\ ResolvedParsedLine
    /\ parseResult # Null
    /\ Len(lastEvent.fired) = 1
    /\ lastEvent.fired[1] # Null
    /\ "name" \in DOMAIN lastEvent.fired[1][1]

\* the name and the expression of the definition are in the object fired, and
\* so are the notations the resolver and the decoder gave before a later stage
\* threw
KeepsEarlierFields(info, parse) ==
    LET definition == GetDefinition(parse.definitions, info.name)
        r == Resolve(parse, info.name) IN
    /\ HasDefinition(parse.definitions, info.name)
    /\ info.expression = Join([i \in 1..Len(definition.tokens) |->
                                 FormatToken(definition.tokens[i])])
    /\ (~r.threw /\ r.value # <<>>) =>
          /\ info.selfies = Some(r.value)
          /\ (~Decode(r.value).threw => info.smiles = Some(Decode(r.value).value))

\* the error is the message of the exception of the resolver or of the decoder
ErrorOfResolverOrDecoder(info, parse) ==
    LET r == Resolve(parse, info.name) IN
    /\ r.threw => info.error = Some(r.message)
    /\ (~r.threw /\ r.value # <<>> /\ Decode(r.value).threw) =>
          info.error = Some(Decode(r.value).message)

\* C10 as it was stated: an exception at any stage (resolver, decoder, weight or
\* formula lookup) becomes the error of the object fired, with the fields of the
\* earlier stages kept.
C10_AsStated ==
    FiredDefinition =>
        LET info == lastEvent.fired[1][1]
            parse == parseResult[1]
            r == Resolve(parse, info.name) IN
        /\ KeepsEarlierFields(info, parse)
        /\ ErrorOfResolverOrDecoder(info, parse)
        /\ (~r.threw /\ r.value # <<>> /\ ~Decode(r.value).threw) =>
              /\ GetMolecularWeight(r.value).threw =>
                    info.error = Some(GetMolecularWeight(r.value).message)
              /\ (~GetMolecularWeight(r.value).threw /\ GetFormula(r.value).threw) =>
                    info.error = Some(GetFormula(r.value).message)

\* C10: an exception of the resolver or of the decoder becomes the error of the
\* object fired, with the fields of the earlier stages kept; an exception of the
\* weight or formula lookup is dropped: the error stays null, the notations are
\* kept and the property that was not computed is null.
C10_PartialFailure ==
    FiredDefinition =>
        LET info == lastEvent.fired[1][1]
            parse == parseResult[1]
            r == Resolve(parse, info.name) IN
        /\ KeepsEarlierFields(info, parse)
        /\ ErrorOfResolverOrDecoder(info, parse)
        /\ (~r.threw /\ r.value # <<>> /\ ~Decode(r.value).threw) =>
              /\ info.error = Null
              /\ info.molecularWeight =
                    (IF GetMolecularWeight(r.value).threw THEN Null
                     ELSE Some(GetMolecularWeight(r.value).value))
              /\ (GetMolecularWeight(r.value).threw \/ GetFormula(r.value).threw) =>
                    info.formula = Null

\* the decoder threw for the definition under the cursor: the object fired has
\* the decoder's message as error and the resolved notation
C10_Witness ==
    /\ FiredDefinition
    /\ lastEvent.fired[1][1].name = "bad"
    /\ lastEvent.fired[1][1].error # Null
    /\ lastEvent.fired[1][1].selfies = Some(<<"[C]", "[Xx]">>)
    /\ lastEvent.fired[1][1].smiles = Null

(***************************************************************************)
(* Properties of the tracker on a smiles-js document, checked under        *)
(* SpecBuild                                                               *)
(***************************************************************************)

\* the line text of a resolve is a declaration without the export marker
IsBare(expression) ==
    /\ \A i \in 1..Len(expression) : MatchExportConst(expression, i) = Null
    /\ MatchConst(expression, 1) # Null

\* the line of a started load, as the document has it when the load starts,
\* carries the export marker
HasMarker(s) ==
    /\ s.line < Len(text[s.document])
    /\ \E i \in 1..Len(text[s.document][s.line + 1]) :
          MatchExportConst(text[s.document][s.line + 1], i) # Null

\* the loads the last step started for a resolve of a bare declaration
BareStarts ==
    {i \in 1..Len(lastEvent.started) : IsBare(lastEvent.started[i].expression)}

\* C11 as it was stated: in a resolve of a line holding a bare declaration, the
\* export marker is in the line and the document is persisted when the module
\* load starts; the load never starts while the line lacks the marker.
C11_AsStated ==
    \A i \in BareStarts :
        /\ HasMarker(lastEvent.started[i])
        /\ files[lastEvent.started[i].document].lines =
               text[lastEvent.started[i].document]

\* C11: in a resolve of a line holding a bare declaration, when the active
\* editor shows the tracked document the export marker is asked for at the
\* declaration's column, and the module load starts only after the edit and
\* the save have settled, with the document persisted; an edit that is applied
\* puts the marker at the column of the declaration. When the active editor
\* does not show the tracked document, no edit and no save are made and the
\* load starts at once, on the line without the marker.
C11_ExportBeforeLoad ==
    [][ /\ \A i \in 1..Len(lastEvent'.started) :
             LET s == lastEvent'.started[i] IN
             IsBare(s.expression) =>
                 IF lastEvent'.kind = "save"
                     THEN /\ s.resolve = lastEvent'.resolve
                          /\ \E r \in resolves : r.id = s.resolve /\ r.pc = "save"
                          /\ files'[s.document].lines = text'[s.document]
                     ELSE /\ activeTextEditor' # s.document
                          /\ text' = text \/ lastEvent'.kind = "change"
                          /\ files' = files
        /\ (lastEvent'.kind = "edit" /\ text' # text) =>
               \E r \in resolves :
                   /\ r.id = lastEvent'.resolve
                   /\ r.pc = "edit"
                   /\ IsBare(r.expression)
                   /\ LET before == text[r.document][r.line + 1]
                          after == text'[r.document][r.line + 1] IN
                      /\ SkipSpaces(after, 1) = SkipSpaces(before, 1)
                      /\ Trim(after) = <<"export", " ">> \o r.expression
        /\ \A r \in resolves' :
               (r.id > seq /\ r.pc = "edit") =>
                   /\ IsBare(r.expression)
                   /\ activeTextEditor' = r.document
                   /\ r.edit[1].document = r.document
                   /\ r.edit[1].line = r.line
                   /\ r.edit[1].position =
                          SkipSpaces(text'[r.document][r.line + 1], 1) - 1
      ]_vars

\* the save of a resolve of a bare declaration has settled and its load starts:
\* the line carries the marker and the file has the text of the document
C11_Witness ==
    /\ lastEvent.kind = "save"
    /\ BareStarts # {}
    /\ \A i \in BareStarts :
          /\ HasMarker(lastEvent.started[i])
          /\ files[lastEvent.started[i].document].lines =
                 text[lastEvent.started[i].document]
    /\ files["m1.smiles.js"].mtimeMs > 0


\* C36: in every state the cached parse, when there is one, is the parse of
\* the text the tracked document has now; with no tracked document there is
\* none.
C36_ParseCacheCurrent ==
    /\ currentDocument = NoDoc => parseResult = Null
    /\ parseResult # Null =>
           /\ currentDocument \in DOMAIN text
           /\ ~LoadWithImports(text[currentDocument]).threw
           /\ parseResult[1].definitions = LoadWithImports(text[currentDocument]).definitions
\* a parse is cached for a tracked document whose text has changed since the
\* extension started, after an event of another document
C36_Witness ==
    /\ parseResult # Null
    /\ currentDocument \in DslDocs
    /\ text[currentDocument] # (IF currentDocument = "basic.selfies"
                                    THEN TextBasic ELSE TextStages)
    /\ lastEvent.kind \in {"editor", "selection", "change"}
    /\ lastEvent.document # currentDocument

\* C38: a cursor event of a supported document other than the tracked one
\* leaves the line of the tracker as it is and starts no resolve of the tracked
\* document.
C38_LineOfTrackedDocument ==
    [][ (/\ lastEvent'.kind = "selection"
         /\ currentDocument # NoDoc
         /\ lastEvent'.document # currentDocument
         /\ IsSupportedFile(lastEvent'.document)) =>
            /\ currentLine' = currentLine
            /\ currentDocument' = currentDocument
            /\ lastEvent'.updates = 0 ]_vars
(***************************************************************************)
(* Properties of the diagnostics providers, checked under SpecDiag         *)
(***************************************************************************)

\* what a provider publishes for a document with the lines when nothing was
\* published for the document before
Fresh(name, document, lines) ==
    IF name = "selfies"
        THEN UpdateDiagnostics(NoDiagnostics[name], document, lines, engine)[document]
        ELSE UpdateRoundTrip(NoDiagnostics[name], document, lines)[document]

\* the last event made the providers recompute the diagnostics of its document
Recomputed(event) == event.kind \in {"open", "change", "fix"}

\* C12: a recompute publishes a set that replaces the previous set of the
\* document: what is published after an open or change event is what would be
\* published had nothing been published before, and a recompute for unchanged
\* content publishes the same diagnostics, in the same number
C12_RecomputeReplaces ==
    [][ Recomputed(lastEvent') =>
            \A name \in DOMAIN diagnosticCollection :
                LET d == lastEvent'.document
                    before == diagnosticCollection[name][d]
                    after == diagnosticCollection'[name][d] IN
                /\ after = Fresh(name, d, text'[d])
                /\ (d \in DOMAIN text /\ text'[d] = text[d]) =>
                       after = before /\ Len(after) = Len(before)
      ]_vars

\* a change event for unchanged content has been handled for a document that
\* has several diagnostics
C12_Witness ==
    /\ lastEvent.kind = "change"
    /\ lastEvent.unchanged
    /\ Len(diagnosticCollection["selfies"][lastEvent.document]) >= 2

\* the selfies documents that are open, and what the engine reports for the
\* text of one: its errors, then its warnings
OpenSelfies == {d \in DOMAIN text : LanguageId(d) = "selfies" /\ ~EndsWithSmilesJs(d)}
Parse(d) == EngineResult(engine, text[d])
Reported(d) == Parse(d).errors \o Parse(d).warnings

\* C13: for every error or warning the engine reports with a 1-based line and
\* column, the published diagnostic starts at (line-1, column-1) and ends on
\* that line, at endColumn-1 when an end column is reported and at the 1-based
\* column (the start column + 1) otherwise.
C13_PositionConversion ==
    \A d \in OpenSelfies :
        Parse(d).threw = Null =>
            /\ Len(diagnosticCollection["selfies"][d]) = Len(Reported(d))
            /\ \A i \in 1..Len(Reported(d)) :
                   LET e == Reported(d)[i]
                       range == diagnosticCollection["selfies"][d][i].range IN
                   (e.line # Null /\ e.column # Null) =>
                       /\ range.start = [line |-> e.line[1] - 1, character |-> e.column[1] - 1]
                       /\ range.end.line = e.line[1] - 1
                       /\ range.end.character =
                              IF e.endColumn # Null THEN e.endColumn[1] - 1 ELSE e.column[1]
C13_Witness ==
    \E d \in OpenSelfies :
        /\ Parse(d).threw = Null
        /\ lastEvent.kind = "change" /\ lastEvent.document = d
        /\ \E i, j \in 1..Len(Reported(d)) :
               LET Line(n) == Reported(d)[n].line
                   Column(n) == Reported(d)[n].column
                   EndColumn(n) == Reported(d)[n].endColumn
                   range(n) == diagnosticCollection["selfies"][d][n].range IN
               /\ Line(i) = Some(3) /\ Column(i) = Some(2) /\ EndColumn(i) = Null
               /\ range(i) = Range(2, 1, 2, 2)
               /\ Line(j) = Some(3) /\ Column(j) = Some(2) /\ EndColumn(j) = Some(4)
               /\ range(j) = Range(2, 1, 2, 3)

\* the category of an error or a warning: its type, or its severity when it has
\* no type, or none; and the severity the table gives for a category
CategoryOf(e) ==
    IF e.type # Null THEN e.type[1] ELSE IF e.severity # Null THEN e.severity[1] ELSE ""
SeverityTable(category) ==
    CASE category \in {"error", "syntax", "undefined", "circular", "redefinition"} -> "Error"
      [] category \in {"warning", "chemistry"} -> "Warning"
      [] category = "info" -> "Information"
      [] category = "hint" -> "Hint"
      [] OTHER -> "Error"

\* C14: the severity published for an error the engine reports is the one the
\* table gives for its category (its type, or its severity when it has no type);
\* every warning the engine reports is published as Warning, whatever its
\* category.
C14_SeverityByTable ==
    \A d \in OpenSelfies :
        Parse(d).threw = Null =>
            \A i \in 1..Len(diagnosticCollection["selfies"][d]) :
                diagnosticCollection["selfies"][d][i].severity =
                    IF i <= Len(Parse(d).errors)
                        THEN SeverityTable(CategoryOf(Reported(d)[i]))
                        ELSE "Warning"
C14_Witness ==
    \E d \in OpenSelfies :
        /\ Parse(d).threw = Null
        /\ lastEvent.kind \in {"open", "change"} /\ lastEvent.document = d
        /\ {diagnosticCollection["selfies"][d][i].severity : i \in 1..Len(Parse(d).errors)}
               = {"Error", "Warning", "Information", "Hint"}
        /\ \E i \in (Len(Parse(d).errors) + 1)..Len(Reported(d)) :
               /\ CategoryOf(Reported(d)[i]) = "info"
               /\ diagnosticCollection["selfies"][d][i].severity = "Warning"
\* C14 as stated: the table gives the severity of every error and of every
\* warning.
C14_AsStated ==
    \A d \in OpenSelfies :
        Parse(d).threw = Null =>
            \A i \in 1..Len(diagnosticCollection["selfies"][d]) :
                diagnosticCollection["selfies"][d][i].severity
                    = SeverityTable(CategoryOf(Reported(d)[i]))

\* C15: when the parse of a selfies document throws, the set published for the
\* document is exactly one diagnostic, with the range (0,0)-(0,1) and a message
\* that carries the message of the failure.
C15_ParseFailure ==
    \A d \in OpenSelfies :
        Parse(d).threw # Null =>
            /\ Len(diagnosticCollection["selfies"][d]) = 1
            /\ diagnosticCollection["selfies"][d][1].range =
                   [start |-> [line |-> 0, character |-> 0],
                    end |-> [line |-> 0, character |-> 1]]
            /\ IndexOf(diagnosticCollection["selfies"][d][1].message, Parse(d).threw[1], 0) >= 0
C15_Witness ==
    \E d \in OpenSelfies :
        /\ Parse(d).threw = Some("Cannot resolve import")
        /\ lastEvent.kind \in {"open", "change"} /\ lastEvent.document = d
        /\ Len(diagnosticCollection["selfies"][d]) = 1
        /\ diagnosticCollection["selfies"][d][1].message
               = "Failed to parse SELFIES file: Cannot resolve import"

C17_AtMostOncePerLine ==
    \A d \in DOMAIN text :
        /\ \A n \in 1..Len(text[d]) :
               LET smilesList == ExtractSMILESFromLine(text[d][n], n - 1) IN
               \A i, j \in 1..Len(smilesList) :
                   i # j => smilesList[i].start # smilesList[j].start
        /\ \A i, j \in 1..Len(diagnosticCollection["smiles-roundtrip"][d]) :
               i # j => diagnosticCollection["smiles-roundtrip"][d][i].range
                            # diagnosticCollection["smiles-roundtrip"][d][j].range

\* the open documents the round-trip provider checks, the literals extracted
\* from the lines of one, in order, and those of them that parse and whose
\* round trip is not perfect
Checked == {d \in DOMAIN text : EndsWithSmilesJs(d) \/ LanguageId(d) = "selfies"}
Extracted(d) ==
    Concat([n \in 1..Len(text[d]) |-> ExtractSMILESFromLine(text[d][n], n - 1)])
Reportable(d) ==
    SelectSeq(Extracted(d),
              LAMBDA e : /\ ~ValidateRoundTrip(e.smiles).threw
                         /\ ~ValidateRoundTrip(e.smiles).perfect)

\* C18: the round-trip result of an extracted literal determines what is
\* published for it: nothing when the round trip is perfect, and otherwise one
\* diagnostic at the literal: a Warning whose message states the stabilized
\* form and the difference of the lengths when the round trip stabilizes, an
\* Error with the bug-report message when it does not.
C18_RoundTripOutcome ==
    \A d \in Checked :
        /\ Len(diagnosticCollection["smiles-roundtrip"][d]) = Len(Reportable(d))
        /\ \A i \in 1..Len(Reportable(d)) :
               LET e == Reportable(d)[i]
                   result == ValidateRoundTrip(e.smiles)
                   diagnostic == diagnosticCollection["smiles-roundtrip"][d][i] IN
               /\ diagnostic.range = [start |-> [line |-> e.line, character |-> e.start],
                                      end |-> [line |-> e.line, character |-> e.end]]
               /\ result.stabilizes =>
                      /\ diagnostic.severity = "Warning"
                      /\ diagnostic.message =
                             "SMILES round-trip: Stabilizes to \"" \o result.firstRoundTrip
                             \o "\" (" \o ToString(Len(e.smiles) - Len(result.firstRoundTrip))
                             \o " char difference)"
               /\ ~result.stabilizes =>
                      /\ diagnostic.severity = "Error"
                      /\ diagnostic.message =
                             "SMILES round-trip: Unstable after 2 parses. "
                             \o "Please file a bug report."
C18_Witness ==
    \E d \in Checked :
        /\ lastEvent.kind \in {"open", "change"} /\ lastEvent.document = d
        /\ \E e \in {Extracted(d)[i] : i \in 1..Len(Extracted(d))} :
               ValidateRoundTrip(e.smiles).perfect
        /\ \E i, j \in 1..Len(diagnosticCollection["smiles-roundtrip"][d]) :
               /\ diagnosticCollection["smiles-roundtrip"][d][i].severity = "Warning"
               /\ diagnosticCollection["smiles-roundtrip"][d][i].message =
                      "SMILES round-trip: Stabilizes to \"c1ccccc1\" (3 char difference)"
               /\ diagnosticCollection["smiles-roundtrip"][d][j].severity = "Error"

\* C19: for every published diagnostic of a round trip that stabilizes, the
\* string between the marker and the next quote of its message, which the
\* quick fix takes as its new text, is the normalized form the round-trip
\* check gave for the literal.
C19_NormalizedRecovered ==
    \A d \in Checked :
        \A i \in 1..Len(Reportable(d)) :
            LET result == ValidateRoundTrip(Reportable(d)[i].smiles)
                diagnostic == diagnosticCollection["smiles-roundtrip"][d][i] IN
            result.stabilizes =>
                /\ Normalized(diagnostic.message) = Some(result.firstRoundTrip)
                /\ Len(ProvideCodeActions(d, <<diagnostic>>)) = 1
                /\ ProvideCodeActions(d, <<diagnostic>>)[1].newText = result.firstRoundTrip
                /\ ProvideCodeActions(d, <<diagnostic>>)[1].range = diagnostic.range
C19_Witness ==
    \E d \in Checked :
        \E i \in 1..Len(Reportable(d)) :
            /\ Reportable(d)[i].smiles = "C1=CC=CC=C1"
            /\ diagnosticCollection["smiles-roundtrip"][d][i].code = Some("smiles-stabilizes")
            /\ Normalized(diagnosticCollection["smiles-roundtrip"][d][i].message)
                   = Some("c1ccccc1")

OpenSmilesJs == {d \in DOMAIN text : EndsWithSmilesJs(d)}
LintAt(d, n, code) ==
    \E i \in 1..Len(diagnosticCollection["selfies"][d]) :
        /\ diagnosticCollection["selfies"][d][i].code = Some(code)
        /\ diagnosticCollection["selfies"][d][i].severity = "Error"
        /\ diagnosticCollection["selfies"][d][i].range.start.line = n - 1

\* C23: for every line of a smiles-js document and each of the three detectors,
\* a diagnostic of severity Error is published for the line exactly when the
\* line matches the pattern of the detector, whatever the other detectors find.
C23_DetectorsIndependent ==
    \A d \in OpenSmilesJs :
        \A n \in 1..Len(text[d]) :
            /\ LintAt(d, n, "deprecated-import")
                   <=> /\ ImportMatch(text[d][n]) # Null
                       /\ IndexOf(ImportMatch(text[d][n])[1], "/fragment", 0) >= 0
            /\ LintAt(d, n, "deprecated-method")
                   <=> IndexOf(text[d][n], ".attachAt(", 0) >= 0
            /\ LintAt(d, n, "deprecated-api") <=> OldRingMatch(text[d][n])

\* C24: every diagnostic published by the lint of a smiles-js document carries
\* a suggested replacement as related information.
C24_AllCarryReplacement ==
    \A d \in OpenSmilesJs :
        \A i \in 1..Len(diagnosticCollection["selfies"][d]) :
            diagnosticCollection["selfies"][d][i].relatedInformation # Null

\* a provider has, for an open document, a set published that is not the set
\* of the text the document has now
Stale ==
    \E name \in DOMAIN diagnosticCollection : \E d \in DOMAIN text :
        diagnosticCollection[name][d] # Fresh(name, d, text[d])

Throws(smilesInfo) == ValidateRoundTrip(smilesInfo.smiles).threw

\* C32: the round-trip diagnostics published for an open document are those of
\* its extracted strings whose check does not throw, each as it is reported on
\* its own and in the order of the strings; a string whose check throws has no
\* diagnostic at its place.
C32_ThrowingLiteralSkipped ==
    \A d \in DOMAIN text :
        LET extracted == IF d \in Checked THEN Extracted(d) ELSE <<>>
            others == SelectSeq(extracted, LAMBDA s : ~Throws(s))
            published == diagnosticCollection["smiles-roundtrip"][d] IN
        /\ published = Concat([i \in 1..Len(others) |-> RoundTripDiagnostic(others[i])])
        /\ \A i \in 1..Len(extracted) :
               LET s == extracted[i] IN
               Throws(s) /\ (\A j \in 1..Len(others) : others[j].start # s.start
                                                         \/ others[j].line # s.line)
                   => \A k \in 1..Len(published) :
                          \/ published[k].range.start.line # s.line
                          \/ published[k].range.start.character # s.start
\* a document is open with a string whose check throws, and strings after it
\* in its line and strings of the line above have their diagnostics published
C32_Witness ==
    \E d \in Checked :
        \E i \in 1..Len(Extracted(d)) :
            LET s == Extracted(d)[i]
                published == diagnosticCollection["smiles-roundtrip"][d] IN
            /\ lastEvent.kind = "change"
            /\ lastEvent.document = d
            /\ ~lastEvent.unchanged
            /\ Throws(s)
            /\ \E k \in 1..Len(published) :
                   /\ published[k].range.start.line = s.line
                   /\ published[k].range.start.character > s.start
            /\ \E k \in 1..Len(published) : published[k].range.start.line < s.line

Delivered ==
    IF lastEvent'.kind = "load"
        THEN { [name |-> r.name, expression |-> r.expression,
                module |-> esmModules[r.load[1].url]] :
               r \in {r \in resolves : r.id = lastEvent'.resolve /\ r.pc = "load"} }
    ELSE IF /\ Len(lastEvent'.started) = 1
            /\ lastReturn'.kind = "hit"
            /\ \A r \in resolves' : r.id # lastEvent'.started[1].resolve
        THEN { [name |-> FindConstAtLine(<<lastEvent'.started[1].expression>>, 0)[1].name,
                expression |-> lastEvent'.started[1].expression,
                module |-> esmModules'[MapGet(smilesModuleCache',
                                              CacheKey(lastReturn'.path,
                                                       files'[lastReturn'.path].mtimeMs))]] }
    ELSE {}

\* C25: when the module of a resolve of a smiles-js line has loaded, and the
\* declared name is not among its exports or the exported value has no smiles
\* field, the resolve fires null and nothing else; when the export is a
\* fragment it fires the line with no error.
C25_NotAFragmentIsNull ==
    [][ \A d \in Delivered :
            d.module.st = "evaluated" =>
                LET exports == ModuleExports(d.module.source) IN
                IF d.name \notin DOMAIN exports
                       \/ exports[d.name].type # "Fragment"
                       \/ exports[d.name].smiles = ""
                    THEN lastEvent'.fired = <<Null>>
                    ELSE /\ Len(lastEvent'.fired) = 1
                         /\ lastEvent'.fired[1] # Null
                         /\ lastEvent'.fired[1][1].error = Null
                         /\ lastEvent'.fired[1][1].name = d.name
      ]_vars
C25_Witness ==
    /\ lastEvent.kind = "load"
    /\ lastReturn.kind = "loaded"
    /\ lastEvent.fired = <<Null>>

\* C26: a load that misses leaves the cache as it is when it starts its import;
\* the cache is evicted when the import has settled, and then it holds the
\* entry of the settled load only, or nothing when the import failed: an entry
\* another load installed meanwhile is discarded.
C26_EvictionAtSettle ==
    [][ /\ BagCardinality(loads') > BagCardinality(loads)
            => smilesModuleCache' = smilesModuleCache
        /\ BagCardinality(loads') < BagCardinality(loads)
            => \E l \in BagToSet(loads) :
                   /\ loads' = loads (-) SetToBag({l})
                   /\ smilesModuleCache' =
                          IF esmModules[l.url].st = "evaluated"
                              THEN {[key |-> l.key, module |-> l.url]}
                              ELSE {}
      ]_vars
\* an entry of one file is resident while a load of the other file is in flight
C26_Witness ==
    \E l \in BagToSet(loads) :
        \E e \in smilesModuleCache :
            /\ e.key[1] # l.key[1]
            /\ esmModules[l.url].st = "evaluated"
\* C26 as stated: no entry is resident while a load that missed is in flight.
C26_AsStated == loads # EmptyBag => smilesModuleCache = {}

\* C27: a resolve is not cancelled: a suspended resolve leaves the suspended
\* ones only in the step that completes it, which fires its one notification,
\* whether or not newer resolves have been issued or have completed; and a
\* resolve whose import has settled can complete.
C27_NoCancellation ==
    [][ \A r \in resolves :
            (\A r2 \in resolves' : r2.id # r.id) =>
                /\ lastEvent'.kind \in {"save", "load"}
                /\ lastEvent'.resolve = r.id
                /\ Len(lastEvent'.fired) = 1
      ]_vars
\* the older of two resolves completes after the newer has: the last
\* notification is the one of the older request
C27_Witness ==
    /\ lastEvent.kind = "load"
    /\ lastEvent.resolve = 1
    /\ seq = 2
    /\ resolves = {}
    /\ Len(lastEvent.fired) = 1
    /\ lastEvent.fired[1] # Null

\* the resolves whose module load failed in the step: by the import (the load
\* returned an error) or before it (the load threw)
FailedLoads ==
    IF lastEvent'.kind = "load" /\ lastReturn'.kind = "failed"
        THEN { [name |-> r.name, expression |-> r.expression,
                failure |-> esmModules[r.load[1].url].failure] :
               r \in {r \in resolves : r.id = lastEvent'.resolve /\ r.pc = "load"} }
    ELSE IF lastReturn'.kind = "threw"
        THEN { [name |-> FindConstAtLine(<<lastEvent'.started[s].expression>>, 0)[1].name,
                expression |-> lastEvent'.started[s].expression,
                failure |-> Null] :
               s \in {s \in 1..Len(lastEvent'.started) :
                        \A r \in resolves' : r.id # lastEvent'.started[s].resolve} }
    ELSE {}
\* C29: when the module load of a resolve of a smiles-js document fails, the
\* resolve fires exactly one notification, a record with the declared name, the
\* expression of the line and an error that is not null; the error is the
\* message of the failure, after "Line N: " when the failure has a line:column
\* position.
C29_LoadFailureNotified ==
    [][ \A f \in FailedLoads :
            /\ Len(lastEvent'.fired) = 1
            /\ lastEvent'.fired[1] # Null
            /\ {"name", "expression", "error"} \subseteq DOMAIN lastEvent'.fired[1][1]
            /\ lastEvent'.fired[1][1].name = f.name
            /\ lastEvent'.fired[1][1].expression = f.expression
            /\ lastEvent'.fired[1][1].error # Null
            /\ f.failure # Null =>
                   lastEvent'.fired[1][1].error =
                       Some(IF f.failure[1].position # Null
                                THEN "Line " \o f.failure[1].position[1] \o ": "
                                         \o f.failure[1].message
                                ELSE f.failure[1].message)
      ]_vars

\* C34: a record with a name that a suspended resolve fires when it goes on
\* after its save or its load has the line at which the resolve read the name
\* and the expression, and the module the resolve loads is the one of the
\* document that was tracked when it read them.
C34_LineOfItsName ==
    [][ lastEvent'.kind \in {"save", "load"} =>
            /\ \A i \in 1..Len(lastEvent'.fired) :
                   LET info == lastEvent'.fired[i] IN
                   (info # Null /\ "name" \in DOMAIN info[1])
                       => info[1].line = lastEvent'.line
            /\ \A i \in 1..Len(lastEvent'.started) :
                   lastEvent'.started[i].resolve = lastEvent'.resolve
                       => lastEvent'.started[i].document = lastEvent'.document
      ]_vars

\* how far a suspended resolve is: at its edit, its save or its load
Rank(pc) == IF pc = "edit" THEN 1 ELSE IF pc = "save" THEN 2 ELSE 3

\* C35: every call of _updateLineInfo with a tracked document and a line
\* either fires one notification or suspends, and a call without a tracked
\* document fires nothing; a step that continues a suspended resolve either
\* ends it with one notification or brings it to its next await, of which there
\* are three at most; no other resolve is ended or moved by the step.  So every
\* resolve whose awaits settle fires exactly one notification.
C35_OneNotificationPerResolve ==
    [][ LET before == {r.id : r \in resolves}
            after == {r.id : r \in resolves'}
            calls == IF currentDocument' = NoDoc \/ currentLine' = NoLine
                         THEN 0 ELSE lastEvent'.updates IN
        /\ Len(lastEvent'.fired) + Cardinality(after \ before)
               = calls + Cardinality(before \ after)
        /\ before \ after \subseteq {lastEvent'.resolve}
        /\ lastEvent'.resolve > 0 => lastEvent'.resolve \in before
        /\ \A r \in resolves : \A s \in resolves' :
               r.id = s.id =>
                   IF r.id = lastEvent'.resolve
                       THEN Rank(s.pc) > Rank(r.pc)
                       ELSE s.pc = r.pc
      ]_vars
\* a resolve that was suspended at its edit and at its save has ended with the
\* one notification of the catch, its load having thrown
C35_Witness ==
    /\ lastEvent.kind = "save"
    /\ \A r \in resolves : r.id # lastEvent.resolve
    /\ Len(lastEvent.fired) = 1
    /\ lastEvent.fired[1] # Null
    /\ "name" \notin DOMAIN lastEvent.fired[1][1]
(***************************************************************************)
(* The refactor command: what it leaves in the document and what it shows  *)
(***************************************************************************)

\* the step is a run of the command that failed (it showed an error), or one
\* that generated a code
RefactorFailed ==
    /\ lastEvent'.kind = "refactor"
    /\ lastEvent'.result.code = Null
RefactorSucceeded ==
    /\ lastEvent'.kind = "refactor"
    /\ lastEvent'.result.code # Null

\* the lines with 'export ' before the const that begins the line n (from 0)
WithExport(lines, n) ==
    LET line == lines[n + 1]
        at == SkipWhite(line, 0) IN
    [lines EXCEPT ![n + 1] = Substr(line, 0, at) \o "export "
                                 \o Substr(line, at, Len(line) - at)]

\* C21: a run of the command that fails leaves every document as it was,
\* but for the 'export ' it inserted before the const of a declaration that
\* had none: a run that fails before that (no editor, not a smiles-js document,
\* no declaration on the line) leaves the text as it was.
C21_FailureKeepsTextButExport ==
    [][ RefactorFailed =>
            LET d == lastEvent'.document
                n == lastEvent'.line
                message == lastEvent'.result.messages[1].message IN
            /\ \A other \in DOMAIN text \ {d} : text'[other] = text[other]
            /\ d # NoDoc =>
                 \/ text'[d] = text[d]
                 \/ /\ Substr(text[d][n + 1], SkipWhite(text[d][n + 1], 0), 5) = "const"
                    /\ text'[d] = WithExport(text[d], n)
                    /\ message \notin {"This command only works in .smiles.js files",
                                       "No const declaration found on the current line"}
      ]_vars
\* a run failed after it had inserted 'export '
C21_Witness ==
    /\ lastEvent.kind = "refactor"
    /\ lastEvent.result.code = Null
    /\ lastEvent.result.messages[1].type = "error"
    /\ lastEvent.document # NoDoc
    /\ text[lastEvent.document] # lastEvent.before
    /\ text[lastEvent.document] = WithExport(lastEvent.before, lastEvent.line)
\* C21 as stated: a run of the command that fails leaves the text of the
\* document as it was before the run
C21_AsStated == [][ RefactorFailed => text' = text ]_vars

Calls(code, constructor) ==
    \E i \in 0..Len(code) :
        /\ Substr(code, i, Len(constructor) + 1) = constructor \o "("
        /\ i > 0 => Substr(code, i - 1, 1) \notin
               {"a", "b", "c", "d", "e", "f", "g", "h", "i", "j", "k", "l", "m",
                "n", "o", "p", "q", "r", "s", "t", "u", "v", "w", "x", "y", "z",
                "A", "B", "C", "D", "E", "F", "G", "H", "I", "J", "K", "L", "M",
                "N", "O", "P", "Q", "R", "S", "T", "U", "V", "W", "X", "Y", "Z",
                "_", "$", "."} \cup Digits

\* C30: a run of the command that generates a code inserts the import of
\* exactly the known constructors the code calls that the document does not
\* import from smiles-js yet, and no import when there is none.
C30_ImportsExactlyCalled ==
    [][ (RefactorSucceeded /\ lastEvent'.result.edited) =>
            LET result == lastEvent'.result
                missing == SelectSeq(<<"Ring", "Linear", "FusedRing", "Molecule">>,
                               LAMBDA c : /\ Calls(result.code[1], c)
                                          /\ c \notin GetExistingImports(result.saved[1]))
                statement == GenerateImportStatement(missing, {})
                imports == {i \in 1..Len(text'[lastEvent'.document]) :
                               /\ statement # Null
                               /\ text'[lastEvent'.document][i] \o "\n" = statement[1]} IN
            /\ result.importStatement = statement
            /\ statement # Null => imports # {}
            /\ statement = Null =>
                   \A i \in 1..Len(text'[lastEvent'.document]) :
                       \/ text'[lastEvent'.document][i] \in
                              {result.saved[1][j] : j \in 1..Len(result.saved[1])}
                       \/ Substr(text'[lastEvent'.document][i], 0, 6) # "import"
      ]_vars

\* the line after the last line of the last import statement of the lines, 0
\* when there is no import: a statement begins on a line that begins with
\* import and ends on the line with the quotes of its module
AfterImports(lines) ==
    LET starts == {i \in 0..(Len(lines) - 1) :
                      Substr(TrimString(lines[i + 1]), 0, 7) = "import "}
        start == CHOOSE i \in starts : \A j \in starts : j <= i
        ends == {k \in start..(Len(lines) - 1) :
                    \E q \in Quotes : IndexOf(lines[k + 1], q, 0) >= 0} IN
    IF starts = {} THEN 0
    ELSE IF ends = {} THEN start + 1
    ELSE (CHOOSE k \in ends : \A j \in ends : k <= j) + 1

\* C31: a run of the command that generates a code and makes its edit leaves
\* the import statement, when there is one, on the line after the last import
\* statement the document had (on the first line when it had none), and the
\* comment that names the declaration, followed by the code, below the line of
\* the declaration, with at most the empty line the inserted text begins with
\* between them.
C31_SplicedAfterImportsAndBelow ==
    [][ (RefactorSucceeded /\ lastEvent'.result.edited) =>
            LET result == lastEvent'.result
                n == lastEvent'.line
                saved == result.saved[1]
                after == text'[lastEvent'.document]
                statement == result.importStatement
                position == AfterImports(saved)
                declaration == n + (IF statement # Null /\ position <= n THEN 1 ELSE 0)
                spliced == <<"// Refactored from " \o FindExportAtLine(saved, n)[1].name
                                 \o ":">> \o Edit(<<result.code[1]>>, <<>>)
                below == SubSeq(after, declaration + 2, Len(after)) IN
            /\ Len(after) > declaration
            /\ after[declaration + 1] = saved[n + 1]
            /\ \/ /\ Len(below) >= Len(spliced)
                  /\ SubSeq(below, 1, Len(spliced)) = spliced
               \/ /\ Len(below) > Len(spliced)
                  /\ SubSeq(below, 1, Len(spliced) + 1) = <<"">> \o spliced
            /\ statement # Null =>
                   \E i \in 1..Len(after) :
                       /\ after[i] \o "\n" = statement[1]
                       /\ position = 0 => i = 1
                       /\ position > 0 => i > 1 /\ after[i - 1] = saved[position]
      ]_vars
(***************************************************************************)
(* The insert of 'export ' among concurrent operations                     *)
(***************************************************************************)

\* the lines of before are lines of after, in their order
RECURSIVE KeepsLines(_, _)
KeepsLines(before, after) ==
    IF before = <<>> THEN TRUE
    ELSE IF after = <<>> THEN FALSE
    ELSE IF Head(before) = Head(after) THEN KeepsLines(Tail(before), Tail(after))
    ELSE KeepsLines(before, Tail(after))

\* C37: An edit of a resolve or of the refactor command that is applied and
\* inserts 'export ' finds the line a declaration without it, under the name
\* the operation has read, puts the marker before its const and leaves the
\* other lines as they are; the line then has the marker, and every other
\* operation that had asked for an edit of the document before is refused.
\* The last edit of the refactor command keeps every line the document has.
\* So a line that has the marker is never given another, and of the operations
\* that have read one declaration without it at most one inserts it.
C37_MarkerInsertedOnce ==
    [][ (lastEvent'.kind \in {"export", "splice"} /\ lastEvent'.applied) =>
            LET r == lastEvent'.operation
                before == text[r.document]
                after == text'[r.document]
                info == FindExportAtLine(before, r.line) IN
            IF lastEvent'.kind = "splice" THEN KeepsLines(before, after)
            ELSE /\ ~r.stale
                 /\ info = Some([name |-> r.name, needsExport |-> TRUE,
                                 constPosition |-> Some(r.edit[1].character)])
                 /\ after = [before EXCEPT ![r.line + 1] =
                                Substr(@, 0, r.edit[1].character) \o "export "
                                    \o Substr(@, r.edit[1].character,
                                              Len(@) - r.edit[1].character)]
                 /\ FindExportAtLine(after, r.line)
                        = Some([name |-> r.name, needsExport |-> FALSE,
                                constPosition |-> Null])
                 /\ \A q \in resolves' :
                        (q.pc = "edit" /\ q.document = r.document /\ q.id <= seq) => q.stale
      ]_vars

\* a resolve of the tracker and then a run of the command have read one
\* declaration without the marker; the edit of the resolve has now been applied
\* and the edit the command waits for can no longer be
C37_Witness ==
    /\ lastEvent.kind = "export"
    /\ lastEvent.applied
    /\ lastEvent.operation.kind = "resolve"
    /\ \E q \in resolves :
           /\ q.kind = "refactor"
           /\ q.pc = "edit"
           /\ q.stale
           /\ q.id > lastEvent.operation.id
           /\ q.document = lastEvent.operation.document
           /\ q.line = lastEvent.operation.line
           /\ q.name = lastEvent.operation.name

====
